---- MODULE Spec2Model ----
(***************************************************************************)
(* aicodec: the apply/revert engine                                        *)
(*   FileSystemChangeSetRepository.apply_changes / _save_revert_data       *)
(*   (infrastructure/repositories/file_system_repository.py),              *)
(* the "revert" command (infrastructure/cli/commands/revert.py) and the    *)
(* JSON preparation pipeline (infrastructure/cli/commands/utils.py).       *)
(*                                                                         *)
(* A path is a sequence of components.  The filesystem maps absolute       *)
(* paths to nodes; .aicodec/revert.json and the .aicodec/reverts directory *)
(* are kept in variables of their own.                                     *)
(***************************************************************************)
EXTENDS Integers, Sequences, FiniteSets, TLC

\* --------------------------------------------------------------- bounds
\* longest change list handed to one apply_changes call
MaxChanges == 2

\* ------------------------------------------------------- the filesystem
Absent == [kind |-> "absent", content |-> ""]
Dir == [kind |-> "dir", content |-> ""]
\* a file whose bytes are not UTF-8 text
Binary == [kind |-> "binary", content |-> "<bytes>"]
TextFile(c) == [kind |-> "text", content |-> c]

\* the project root the engine is run on: the directory /w/p
Roots == {<<"w", "p">>}

\* file_path values of the input: relative names, "..", "." and an
\* absolute path (first component "/")
P_a == <<"a">>
P_out == <<"..", "o">>
P_abs == <<"/", "o">>
P_dot == <<".">>
P_b == <<"b">>
P_aic == <<".aicodec">>
FilePaths == {P_a, P_b, P_out, P_abs, P_dot, P_aic}

\* Path.joinpath: an absolute argument replaces the base
JoinPath(base, fp) ==
  IF Len(fp) > 0 /\ fp[1] = "/" THEN Tail(fp) ELSE base \o fp

\* Path.resolve on a path without symlinks: "." is dropped, ".." removes
\* the component before it (and stays at the filesystem root)
RECURSIVE Normalize(_, _)
Normalize(done, rest) ==
  IF rest = <<>> THEN done
  ELSE IF rest[1] = "." THEN Normalize(done, Tail(rest))
  ELSE IF rest[1] = ".."
    THEN Normalize(IF done = <<>> THEN <<>> ELSE SubSeq(done, 1, Len(done) - 1),
                   Tail(rest))
  ELSE Normalize(Append(done, rest[1]), Tail(rest))

Resolve(base, fp) == Normalize(<<>>, JoinPath(base, fp))

\* Path.parents: the proper ancestors of a path
IsParentOf(anc, p) ==
  /\ Len(anc) < Len(p)
  /\ SubSeq(p, 1, Len(anc)) = anc

\* a guard that compares only the depth of the two paths
InsideRootDepthOnly(root, target) == Len(target) >= Len(root)

\* the guard of apply_changes, negated: the target may be touched
InsideRoot(root, target) == IsParentOf(root, target) \/ target = root

Locs == {Resolve(r, fp) : r \in Roots, fp \in FilePaths} \cup Roots

\* --------------------------------------------------------- the changes
\* ChangeAction values
Actions == {"CREATE", "REPLACE", "DELETE", "PATCH"}

Chg(fp, act, c) == [file_path |-> fp, action |-> act, content |-> c]

\* PATCH contents: a unified diff that rewrites the text "x" to "y", and
\* a text that is no diff at all
PatchXY == "@@ -x +y"
BadPatch == "this is not a valid patch format"

\* the changes an input change list is built from
InputChanges ==
  {Chg(P_a, "CREATE", "x"), Chg(P_a, "REPLACE", "y"), Chg(P_a, "DELETE", ""),
   Chg(P_a, "PATCH", PatchXY), Chg(P_a, "PATCH", BadPatch),
   Chg(P_out, "CREATE", "x"), Chg(P_dot, "REPLACE", "x"),
   Chg(P_aic, "CREATE", "x")}

\* the change lists a caller passes to apply_changes
ChangeLists == UNION {[1..n -> InputChanges] : n \in 0..MaxChanges}

\* get_patched_content(original, patch): the patched text, or an error
\* when the patch is no unified diff or its context lines are not the
\* original text
GetPatchedContent(original, patch) ==
  IF patch = PatchXY /\ original = "x" THEN [ok |-> TRUE, text |-> "y"]
  ELSE [ok |-> FALSE, text |-> original]

\* one entry of the list apply_changes returns
Result(fp, st, d) == [filePath |-> fp, status |-> st, detail |-> d]
TraversalReason == "Directory traversal attempt blocked."
DeleteSkipReason == "File not found for DELETE"
IoReason == "I/O error"

\* a check of existence that finds every target
ExistsAlways(node) == TRUE

\* -------------------------------------------- one pass of the apply loop
\* target_path.exists()
Exists(node) == node.kind # "absent"

\* target_path.read_text(encoding='utf-8') of a text file: the text mode
\* of Python turns each CR LF of the file into LF
ReadText(c) == IF c = "y\r\n" THEN "y\n" ELSE c

\* original_content_for_revert: the text of the target when it exists and
\* read_text succeeds, "" otherwise (the read error is swallowed)
OriginalContent(node) ==
  IF node.kind = "text" THEN ReadText(node.content) ELSE ""

\* write_text and unlink raise on a directory, or when the environment
\* refuses the operation (io = "fail")
Raises(node, io) == node.kind = "dir" \/ io = "fail"

\* an inverse that forgets whether the file existed
InverseOfWriteAlwaysReplace(change, file_existed, original) ==
  Chg(change.file_path, "REPLACE", original)

\* the inverse recorded for a CREATE or REPLACE that was written
InverseOfWrite(change, file_existed, original) ==
  Chg(change.file_path, IF file_existed THEN "REPLACE" ELSE "DELETE", original)

\* the inverse recorded for a DELETE that removed the file
InverseOfDelete(change, original) == Chg(change.file_path, "CREATE", original)

\* what one pass records in new_revert_changes
Recorded(mode, inverse) == IF mode = "apply" THEN <<inverse>> ELSE <<>>

\* the body of "for change in changes": the filesystem after the pass, the
\* result appended and the inverse changes appended (none or one)
ApplyOne(f, root, change, mode, io) ==
  LET target == Resolve(root, change.file_path)
      node == f[target]
      file_existed == Exists(node)
      original == OriginalContent(node)
      fp == change.file_path
  IN
  IF ~InsideRoot(root, target)
    THEN [fs |-> f, result |-> Result(fp, "FAILURE", TraversalReason), revert |-> <<>>]
  ELSE IF change.action \in {"CREATE", "REPLACE"}
    THEN IF Raises(node, io)
      THEN [fs |-> f, result |-> Result(fp, "FAILURE", IoReason), revert |-> <<>>]
      ELSE [fs |-> [f EXCEPT ![target] = TextFile(change.content)],
            result |-> Result(fp, "SUCCESS", change.action),
            revert |-> Recorded(mode, InverseOfWrite(change, file_existed, original))]
  ELSE IF change.action = "DELETE"
    THEN IF file_existed
      THEN IF Raises(node, io)
        THEN [fs |-> f, result |-> Result(fp, "FAILURE", IoReason), revert |-> <<>>]
        ELSE [fs |-> [f EXCEPT ![target] = Absent],
              result |-> Result(fp, "SUCCESS", change.action),
              revert |-> Recorded(mode, InverseOfDelete(change, original))]
      ELSE [fs |-> f, result |-> Result(fp, "SKIPPED", DeleteSkipReason), revert |-> <<>>]
  ELSE [fs |-> f, result |-> Result(fp, "SUCCESS", change.action), revert |-> <<>>]

\* whether the pass reaches write_text or unlink, where io matters
TouchesDisk(f, root, change) ==
  LET target == Resolve(root, change.file_path)
  IN /\ InsideRoot(root, target)
     /\ \/ change.action \in {"CREATE", "REPLACE"}
        \/ change.action = "DELETE" /\ Exists(f[target])

\* ------------------------------------------------- _save_revert_data
NoRevertFile == [exists |-> FALSE, changes |-> <<>>, session_id |-> "none"]
RevertFile(chs, sid) == [exists |-> TRUE, changes |-> chs, session_id |-> sid]

\* the directory that holds revert.json
RevertDir(root) == root \o P_aic

\* the guard of the call of _save_revert_data
SavesRevert(m, new_revert) == m = "apply" /\ new_revert # <<>>

\* revert_file_dir.mkdir(exist_ok=True) raises FileExistsError when the
\* name is taken by a file; open(revert_file_path, 'w') raises when the
\* environment refuses it (io = "fail"); otherwise revert.json is replaced
SaveRevertData(f, root, rj, new_revert, sid, io) ==
  LET d == RevertDir(root)
  IN IF f[d].kind \in {"text", "binary"}
       THEN [fs |-> f, revert_json |-> rj, raised |-> TRUE]
     ELSE IF io = "fail"
       THEN [fs |-> [f EXCEPT ![d] = Dir], revert_json |-> rj, raised |-> TRUE]
     ELSE [fs |-> [f EXCEPT ![d] = Dir],
           revert_json |-> RevertFile(new_revert, sid), raised |-> FALSE]

\* an end of the call that saves whatever the mode and the list are
FinishCallUnguarded(f, root, rj, m, new_revert, sid, io) ==
  SaveRevertData(f, root, rj, new_revert, sid, io)

\* the end of apply_changes, after the loop: revert data is saved when the
\* call is an apply that recorded something
FinishCall(f, root, rj, m, new_revert, sid, io) ==
  IF SavesRevert(m, new_revert)
    THEN SaveRevertData(f, root, rj, new_revert, sid, io)
    ELSE [fs |-> f, revert_json |-> rj, raised |-> FALSE]

\* ------------------------------------------------------------ the state
VARIABLES
  output_dir,          \* the project root, resolved
  fs,                  \* the filesystem: absolute path -> node
  revert_json,         \* <output_dir>/.aicodec/revert.json
  pc,                  \* "idle", "loop", "returned", "raised"
  mode,                \* "apply" or "revert"
  session_id,
  changes,             \* the change list the call was given
  idx,                 \* the loop has processed changes[1..idx]
  results,             \* the list apply_changes returns
  new_revert_changes,  \* the inverse changes recorded by this call
  observed,            \* history: the target node seen before each pass
  pre_fs,              \* history: fs when the call started
  pre_revert_json,     \* history: revert.json when the call started
  base_fs,             \* history: fs before the apply call being undone
  base_changes,        \* history: the change list of that apply call
  round_trip,          \* history: this call undoes the call just before it
  io_fault,            \* history: the environment refused an operation
  args,                \* "aicodec revert": the parsed command line
  reverts_dir,         \* <aicodec_root>/.aicodec/reverts
  revert_files,        \* the session files the run has still to process
  all_results,         \* the results of the sessions processed so far
  run_pc,              \* "idle", "next", "applying", "done", "ui"
  run_log,             \* history: what the run did with each session
  llm_json,            \* clean_prepare_json_string: the text it is given
  cleaned_str,         \* the text after cleaning or repair
  cleaned_json,        \* the parsed document
  json_pc,             \* "start", "cleaned", "repair", "tier3", "tier4",
                       \* "parsed", "returned", "raised" (with
                       \* JsonPreparationError), "escaped" (another
                       \* exception left the function)
  tier,                \* history: 0 nothing parsed yet, 1 the direct
                       \* parse ran, 2..4 the repair function that ran
                       \* last
  returned,            \* the text the function returned
  changes_file,        \* review server: the changes JSON file
  ui_mode,             \* review server: "apply" or "revert"
  last_context,        \* history: the last /api/context response, when
                       \* nothing was written since it was sent
  projections,         \* history: /api/context requests since the last
                       \* write
  decoder_call,        \* history: the arguments of the last call of the
                       \* decoder's _apply_changes
  decoder_pre_fs,      \* history: fs when that call started
  fix_by,              \* the repair function that is called on its own
  fix_input,           \* the text it is given
  fix_pc,              \* "idle", "start", "returned"
  fix_output           \* what it returned

\* the state of the revert command
runVars == <<args, reverts_dir, revert_files, all_results, run_pc, run_log>>

\* the state of clean_prepare_json_string
jsonVars == <<llm_json, cleaned_str, cleaned_json, json_pc, tier, returned>>

\* the state of the review server
reviewVars == <<changes_file, ui_mode, last_context, projections>>

\* the state of the decoder service
decoderVars == <<decoder_call, decoder_pre_fs>>

\* the state of one call of a repair function of utils.py
fixVars == <<fix_by, fix_input, fix_pc, fix_output>>

vars == <<output_dir, fs, revert_json, pc, mode, session_id, changes, idx,
          results, new_revert_changes, observed, pre_fs, pre_revert_json,
          base_fs, base_changes, round_trip, io_fault, args, reverts_dir,
          revert_files, all_results, run_pc, run_log, llm_json, cleaned_str,
          cleaned_json, json_pc, tier, returned, changes_file, ui_mode,
          last_context, projections, decoder_call, decoder_pre_fs, fix_by,
          fix_input, fix_pc, fix_output>>

SessionIds == {"s1"}

\* clean_prepare_json_string has not been called
NoDoc == [ok |-> FALSE, doc |-> <<>>]
JsonIdle ==
  /\ llm_json = <<>>
  /\ cleaned_str = <<>>
  /\ cleaned_json = NoDoc
  /\ json_pc = "idle"
  /\ tier = 0
  /\ returned = <<>>

\* no review server is running
NoChangesFile == [ok |-> FALSE, changes |-> <<>>]
NoResponse == [status |-> 0, changes |-> <<>>, mode |-> "none"]
ReviewIdle ==
  /\ changes_file = NoChangesFile
  /\ ui_mode = "none"
  /\ last_context = NoResponse
  /\ projections = 0

\* the decoder service has not been called
NoCall == [by |-> "none", changes |-> <<>>, dry_run |-> FALSE,
           auto_confirm |-> FALSE, confirm |-> ""]
NoFs == <<>>
DecoderIdle ==
  /\ decoder_call = NoCall
  /\ decoder_pre_fs = NoFs

\* no repair function has been called on its own
NoFix == [ok |-> FALSE, text |-> <<>>]
FixIdle ==
  /\ fix_by = "none"
  /\ fix_input = <<>>
  /\ fix_pc = "idle"
  /\ fix_output = NoFix

\* no revert command has been given; no reverts directory exists
NoArgs == [all |-> FALSE, files |-> {}]
NoRevertsDir == [exists |-> FALSE, files |-> <<>>, other |-> FALSE]
IoOutcomes == {"ok", "fail"}

\* the project before the first call: "a" is missing, a text file or a
\* file that is not UTF-8 text; a file exists next to the project root
InitFs(root, a) ==
  [l \in Locs |->
    IF l = root \/ IsParentOf(l, root) THEN Dir
    ELSE IF l = Resolve(root, P_a) THEN a
    ELSE IF l = Resolve(root, P_out) THEN TextFile("z")
    ELSE Absent]

Init ==
  /\ output_dir \in Roots
  /\ \E a \in {Absent, TextFile("x"), Binary} : fs = InitFs(output_dir, a)
  /\ revert_json = NoRevertFile
  /\ pc = "idle"
  /\ mode = "apply"
  /\ session_id = "none"
  /\ changes = <<>>
  /\ idx = 0
  /\ results = <<>>
  /\ new_revert_changes = <<>>
  /\ observed = <<>>
  /\ pre_fs = fs
  /\ pre_revert_json = revert_json
  /\ base_fs = fs
  /\ base_changes = <<>>
  /\ round_trip = FALSE
  /\ io_fault = FALSE
  /\ args = NoArgs
  /\ reverts_dir = NoRevertsDir
  /\ revert_files = <<>>
  /\ all_results = <<>>
  /\ run_pc = "idle"
  /\ run_log = <<>>
  /\ JsonIdle
  /\ ReviewIdle
  /\ DecoderIdle
  /\ FixIdle

\* apply_changes(changes, output_dir, mode, session_id) is entered
StartCall ==
  /\ pc = "idle"
  /\ \E m \in {"apply", "revert"} :
       /\ mode' = m
       /\ session_id' \in (IF m = "apply" THEN SessionIds ELSE {"none"})
  /\ pc' = "loop"
  /\ changes' \in ChangeLists
  /\ idx' = 0
  /\ results' = <<>>
  /\ new_revert_changes' = <<>>
  /\ observed' = <<>>
  /\ pre_fs' = fs
  /\ pre_revert_json' = revert_json
  /\ base_fs' = fs
  /\ base_changes' = <<>>
  /\ round_trip' = FALSE
  /\ io_fault' = FALSE
  /\ UNCHANGED <<output_dir, revert_json, fs>>
  /\ UNCHANGED <<runVars, jsonVars, reviewVars, decoderVars, fixVars>>

\* "aicodec revert": the changes of revert.json are applied in revert mode
StartRevert ==
  /\ pc \in {"idle", "returned"}
  /\ revert_json.exists
  /\ mode' = "revert"
  /\ session_id' = "none"
  /\ pc' = "loop"
  /\ changes' = revert_json.changes
  /\ idx' = 0
  /\ results' = <<>>
  /\ new_revert_changes' = <<>>
  /\ observed' = <<>>
  /\ pre_fs' = fs
  /\ pre_revert_json' = revert_json
  /\ round_trip' = (pc = "returned" /\ SavesRevert(mode, new_revert_changes))
  /\ base_fs' = IF round_trip' THEN pre_fs ELSE fs
  /\ base_changes' = IF round_trip' THEN changes ELSE <<>>
  /\ io_fault' = (io_fault /\ round_trip')
  /\ UNCHANGED <<output_dir, fs, revert_json>>
  /\ UNCHANGED <<runVars, jsonVars, reviewVars, decoderVars, fixVars>>

\* one pass of the loop over the change list
Step ==
  /\ pc = "loop"
  /\ idx < Len(changes)
  /\ \E io \in IoOutcomes :
       LET c == changes[idx + 1]
           r == ApplyOne(fs, output_dir, c, mode, io)
       IN /\ io = "fail" => TouchesDisk(fs, output_dir, c)
          /\ fs' = r.fs
          /\ results' = Append(results, r.result)
          /\ new_revert_changes' = new_revert_changes \o r.revert
          /\ observed' = Append(observed, fs[Resolve(output_dir, c.file_path)])
          /\ io_fault' = (io_fault \/ io = "fail")
  /\ idx' = idx + 1
  /\ UNCHANGED <<output_dir, revert_json, pc, mode, session_id, changes,
                 pre_fs, pre_revert_json, base_fs, base_changes, round_trip>>
  /\ UNCHANGED <<runVars, jsonVars, reviewVars, decoderVars, fixVars>>

\* the list is exhausted: revert data is saved when the call is an apply
\* that recorded something, and the results are returned
Finish ==
  /\ pc = "loop"
  /\ idx = Len(changes)
  /\ \E io \in IoOutcomes :
       LET s == FinishCall(fs, output_dir, revert_json, mode,
                           new_revert_changes, session_id, io)
       IN /\ io = "fail" => SavesRevert(mode, new_revert_changes)
          /\ fs' = s.fs
          /\ revert_json' = s.revert_json
          /\ pc' = IF s.raised THEN "raised" ELSE "returned"
          /\ io_fault' = (io_fault \/ io = "fail")
  /\ UNCHANGED <<output_dir, mode, session_id, changes, idx, results,
                 new_revert_changes, observed, pre_fs, pre_revert_json,
                 base_fs, base_changes, round_trip>>
  /\ UNCHANGED <<runVars, jsonVars, reviewVars, decoderVars, fixVars>>

\* the caller is done with the result list (or with the exception)
Return ==
  /\ pc \in {"returned", "raised"}
  /\ pc' = "idle"
  /\ mode' = "apply"
  /\ session_id' = "none"
  /\ changes' = <<>>
  /\ idx' = 0
  /\ results' = <<>>
  /\ new_revert_changes' = <<>>
  /\ observed' = <<>>
  /\ pre_fs' = fs
  /\ pre_revert_json' = revert_json
  /\ base_fs' = fs
  /\ base_changes' = <<>>
  /\ round_trip' = FALSE
  /\ io_fault' = FALSE
  /\ UNCHANGED <<output_dir, fs, revert_json>>
  /\ UNCHANGED <<runVars, jsonVars, reviewVars, decoderVars, fixVars>>

Next == StartCall \/ StartRevert \/ Step \/ Finish \/ Return

Spec == Init /\ [][Next]_vars

\* ------------------------------------------- the revert command (run)
\* most session files the reverts directory holds; session n is the file
\* revert-00n.json
MaxSessions == 2
\* longest change list of one session file
MaxSessionChanges == 2

SessionNames == 1..MaxSessions

SessionChanges ==
  {Chg(P_a, "REPLACE", "x"), Chg(P_a, "DELETE", ""), Chg(P_b, "CREATE", "y")}

SessionLists == UNION {[1..n -> SessionChanges] : n \in 0..MaxSessionChanges}

\* the values of --files that a run is given; {} is "no --files"
FileArgs == {{}, {P_a}, {<<".", "a">>, P_b}}

\* Path(f).as_posix(): "." components are dropped, ".." is kept
AsPosix(fp) ==
  LET s == SelectSeq(fp, LAMBDA x : x # ".")
  IN IF s = <<>> THEN <<".">> ELSE s

\* a sort without reverse=True: oldest first
RECURSIVE SortedForward(_)
SortedForward(S) ==
  IF S = {} THEN <<>>
  ELSE LET m == CHOOSE x \in S : \A y \in S : x <= y
       IN <<m>> \o SortedForward(S \ {m})

\* sorted(reverts_dir.glob("revert-*.json"), reverse=True)
RECURSIVE SortedReverse(_)
SortedReverse(S) ==
  IF S = {} THEN <<>>
  ELSE LET m == CHOOSE x \in S : \A y \in S : y <= x
       IN <<m>> \o SortedReverse(S \ {m})

CannotRead == "<Cannot read binary file>"
ReviewItem(fp, orig, prop, act) ==
  [filePath |-> fp, original_content |-> orig, proposed_content |-> prop,
   action |-> act]

\* a projection that shows every change under the action it was stored with
ProjectOneKeepingAction(f, root, change) ==
  LET node == f[Resolve(root, change.file_path)]
      orig == IF node.kind = "text" THEN ReadText(node.content)
              ELSE CannotRead
  IN IF change.file_path = <<>> THEN <<>>
     ELSE IF Exists(node) /\ change.action \in {"CREATE", "REPLACE"}
                          /\ orig = change.content THEN <<>>
     ELSE IF change.action \in {"CREATE", "REPLACE", "DELETE"}
       THEN <<ReviewItem(change.file_path,
                         IF Exists(node) THEN orig ELSE "",
                         IF change.action = "DELETE" THEN "" ELSE change.content,
                         change.action)>>
     ELSE <<>>
\* what the review projection makes of one change: a list of no item or
\* of one item
ProjectOne(f, root, change) ==
  LET node == f[Resolve(root, change.file_path)]
      orig == IF node.kind = "text" THEN ReadText(node.content)
              ELSE CannotRead
      act == IF change.action = "CREATE" THEN "REPLACE" ELSE change.action
  IN IF change.file_path = <<>> THEN <<>>
     ELSE IF Exists(node)
       THEN IF act = "REPLACE"
              THEN IF orig # change.content
                     THEN <<ReviewItem(change.file_path, orig,
                                       change.content, act)>>
                     ELSE <<>>
            ELSE IF act = "DELETE"
              THEN <<ReviewItem(change.file_path, orig, "", act)>>
            ELSE <<>>
     ELSE IF change.action = "DELETE" THEN <<>>
     ELSE IF change.action \in {"CREATE", "REPLACE"}
       THEN <<ReviewItem(change.file_path, "", change.content, "CREATE")>>
     ELSE <<>>

\* get_review_context()["changes"]
RECURSIVE GetReviewContext(_, _, _)
GetReviewContext(f, root, chs) ==
  IF chs = <<>> THEN <<>>
  ELSE ProjectOne(f, root, Head(chs)) \o GetReviewContext(f, root, Tail(chs))

\* ReviewService.get_review_context()["changes"]: the review projection
\* of the changes file the service was built with
ServiceReviewContext(f, root, chs) == GetReviewContext(f, root, chs)

\* a filter that lets every change through
FilterFilesKeepAll(items, files) == items

\* the filter of --files
FilterFiles(items, files) ==
  IF files = {} THEN items
  ELSE LET target_files == {AsPosix(x) : x \in files}
       IN SelectSeq(items, LAMBDA c : AsPosix(c.filePath) \in target_files)

\* changes_payload
Payload(items) ==
  [i \in 1..Len(items) |->
     Chg(items[i].filePath, items[i].action, items[i].proposed_content)]

SuccessCount(rs) ==
  Cardinality({i \in 1..Len(rs) : rs[i].status = "SUCCESS"})

\* the session file is unlinked after its apply_changes call
DeletesSession(rs) == SuccessCount(rs) > 0

InitRevertFs(root, a, b) ==
  [InitFs(root, a) EXCEPT ![Resolve(root, P_b)] = b]

InitRevert ==
  /\ output_dir \in Roots
  /\ \E a \in {Absent, TextFile("y")} : \E b \in {Absent, Dir} :
       fs = InitRevertFs(output_dir, a, b)
  /\ revert_json = NoRevertFile
  /\ pc = "idle"
  /\ mode = "apply"
  /\ session_id = "none"
  /\ changes = <<>>
  /\ idx = 0
  /\ results = <<>>
  /\ new_revert_changes = <<>>
  /\ observed = <<>>
  /\ pre_fs = fs
  /\ pre_revert_json = revert_json
  /\ base_fs = fs
  /\ base_changes = <<>>
  /\ round_trip = FALSE
  /\ io_fault = FALSE
  /\ args = NoArgs
  /\ \/ reverts_dir = NoRevertsDir
     \/ \E S \in SUBSET SessionNames : \E fl \in [S -> SessionLists] :
          \E o \in BOOLEAN :
            reverts_dir = [exists |-> TRUE, files |-> fl, other |-> o]
  /\ revert_files = <<>>
  /\ all_results = <<>>
  /\ run_pc = "idle"
  /\ run_log = <<>>
  /\ JsonIdle
  /\ ReviewIdle
  /\ DecoderIdle
  /\ FixIdle

callVars == <<pc, mode, session_id, changes, idx, results,
              new_revert_changes, observed, pre_fs, pre_revert_json,
              base_fs, base_changes, round_trip, io_fault>>

\* run(args) up to the loop over the session files: without revert data
\* the run ends with an error; with --all or --files the files are
\* processed newest first; otherwise the review UI is opened
RunStart ==
  /\ run_pc \in {"idle", "done", "ui"}
  /\ pc = "idle"
  /\ \E al \in BOOLEAN : \E fls \in FileArgs :
       /\ args' = [all |-> al, files |-> fls]
       /\ LET found == SortedReverse(DOMAIN reverts_dir.files)
          IN IF ~reverts_dir.exists \/ found = <<>>
               THEN /\ run_pc' = "done"
                    /\ revert_files' = <<>>
             ELSE IF al \/ fls # {}
               THEN /\ run_pc' = "next"
                    /\ revert_files' = found
             ELSE /\ run_pc' = "ui"
                  /\ revert_files' = <<>>
  /\ all_results' = <<>>
  /\ run_log' = <<>>
  /\ UNCHANGED <<output_dir, fs, revert_json, reverts_dir>>
  /\ UNCHANGED callVars
  /\ UNCHANGED <<jsonVars, reviewVars, decoderVars, fixVars>>

\* the next session file: its changes are projected and filtered, and
\* what is left is handed to apply_changes in revert mode
NextSession ==
  /\ run_pc = "next"
  /\ revert_files # <<>>
  /\ LET revert_file == Head(revert_files)
         context == ServiceReviewContext(fs, output_dir,
                                         reverts_dir.files[revert_file])
         changes_to_revert == FilterFiles(context, args.files)
     IN /\ revert_files' = Tail(revert_files)
        /\ IF changes_to_revert = <<>>
             THEN /\ run_log' = Append(run_log,
                                  [file |-> revert_file, given |-> <<>>,
                                   results |-> <<>>, applied |-> FALSE,
                                   deleted |-> FALSE])
                  /\ UNCHANGED <<run_pc, pc, mode, changes, pre_fs>>
             ELSE /\ run_log' = Append(run_log,
                                  [file |-> revert_file,
                                   given |-> Payload(changes_to_revert),
                                   results |-> <<>>, applied |-> TRUE,
                                   deleted |-> FALSE])
                  /\ run_pc' = "applying"
                  /\ pc' = "loop"
                  /\ mode' = "revert"
                  /\ changes' = Payload(changes_to_revert)
                  /\ pre_fs' = fs
  /\ UNCHANGED <<output_dir, fs, revert_json, reverts_dir, args, all_results,
                 session_id, idx, results, new_revert_changes, observed,
                 pre_revert_json, base_fs, base_changes, round_trip, io_fault>>
  /\ UNCHANGED <<jsonVars, reviewVars, decoderVars, fixVars>>

\* apply_changes has returned: the results are collected and the session
\* file is deleted when a result is a success
AfterApply ==
  /\ run_pc = "applying"
  /\ pc = "returned"
  /\ LET revert_file == run_log[Len(run_log)].file
         kept == DOMAIN reverts_dir.files \ {revert_file}
     IN /\ all_results' = all_results \o results
        /\ reverts_dir' =
             IF DeletesSession(results)
               THEN [reverts_dir EXCEPT
                       !.files = [n \in kept |-> reverts_dir.files[n]]]
               ELSE reverts_dir
        /\ run_log' = [run_log EXCEPT
                         ![Len(run_log)].results = results,
                         ![Len(run_log)].deleted = DeletesSession(results)]
  /\ run_pc' = "next"
  /\ pc' = "idle"
  /\ mode' = "apply"
  /\ changes' = <<>>
  /\ idx' = 0
  /\ results' = <<>>
  /\ observed' = <<>>
  /\ pre_fs' = fs
  /\ io_fault' = FALSE
  /\ UNCHANGED <<output_dir, fs, revert_json, args, revert_files, session_id,
                 new_revert_changes, pre_revert_json, base_fs, base_changes,
                 round_trip>>
  /\ UNCHANGED <<jsonVars, reviewVars, decoderVars, fixVars>>

\* every session file has been processed: the summary is printed and an
\* empty reverts directory is removed
EndRun ==
  /\ run_pc = "next"
  /\ revert_files = <<>>
  /\ run_pc' = "done"
  /\ reverts_dir' =
       IF DOMAIN reverts_dir.files = {} /\ ~reverts_dir.other
         THEN NoRevertsDir
         ELSE reverts_dir
  /\ UNCHANGED <<output_dir, fs, revert_json, args, revert_files,
                 all_results, run_log>>
  /\ UNCHANGED callVars
  /\ UNCHANGED <<jsonVars, reviewVars, decoderVars, fixVars>>

NextRevert == RunStart \/ NextSession \/ Step \/ Finish \/ AfterApply \/ EndRun

SpecRevert == InitRevert /\ [][NextRevert]_vars

\* ------------------------------------- clean_prepare_json_string
\* A text is a sequence of characters. The characters with a name:
NBSP == "NBSP"   \* U+00A0, the non-breaking space
DEL == "DEL"     \* 0x7F
BEL == "BEL"     \* 0x07, one of the control bytes below 0x20
LF == "LF"       \* the line feed
SP == " "
Q == "\""
BS == "\\"
\* The words of a document ("summary", "a.py", "CREATE", ...) are written
\* as one character each: they hold no character that cleaning, escaping
\* or parsing treats specially.

\* most pieces a generated summary or content value is made of
MaxPieces == 3

\* the literal text  
NbspEscape == <<BS, "u", "0", "0", "a", "0">>

Pieces ==
  {<<"a">>, <<NBSP>>, <<DEL>>, <<BEL>>, <<BS>>, <<Q>>, <<"n">>,
   <<"u", "0", "0", "a", "0">>, <<LF>>, <<BS, "W">>, <<BS, "_">>}

RECURSIVE BodiesUpTo(_)
BodiesUpTo(n) ==
  IF n = 0 THEN {<<>>}
  ELSE LET B == BodiesUpTo(n - 1)
       IN B \cup {b \o p : b \in B, p \in Pieces}

SummaryBodies == {<<>>, <<"a">>, <<NBSP>>}
ActionWords == {"CREATE", "BOGUS"}

\* the text of a change document with one change, given the raw text
\* between the quotes of its summary, action and content
Render(summary, action, content) ==
  <<"{", Q, "summary", Q, ":", Q>> \o summary \o
  <<Q, ",", Q, "changes", Q, ":", "[", "{", Q, "filePath", Q, ":", Q, "a.py",
    Q, ",", Q, "action", Q, ":", Q>> \o action \o
  <<Q, ",", Q, "content", Q, ":", Q>> \o content \o
  <<Q, "}", "]", "}">>

\* the depth of nesting at which json.loads gives up with RecursionError:
\* the recursion limit of the interpreter, scaled down
RecursionLimit == 2

\* texts that open arrays and never close them
NestedTexts == {[i \in 1..n |-> "["] : n \in 1..(RecursionLimit + 1)}

InputTexts ==
  {Render(s, <<a>>, c) :
     s \in SummaryBodies, a \in ActionWords, c \in BodiesUpTo(MaxPieces)}
  \cup NestedTexts

\* re.sub(r"\xa0", " ", s)
ReplaceNbsp(s) == [i \in 1..Len(s) |-> IF s[i] = NBSP THEN SP ELSE s[i]]

\* re.sub(r"\\u00a0", " ", s): the matches are taken from left to right
RECURSIVE ReplaceNbspEscape(_)
ReplaceNbspEscape(s) ==
  IF s = <<>> THEN <<>>
  ELSE IF Len(s) >= 6 /\ SubSeq(s, 1, 6) = NbspEscape
    THEN <<SP>> \o ReplaceNbspEscape(SubSeq(s, 7, Len(s)))
  ELSE <<Head(s)>> \o ReplaceNbspEscape(Tail(s))

\* the characters of [\x00-\x08\x0B\x0C\x0E-\x1F\x7F] that a text here
\* can hold
RemovedControls == {BEL, DEL}

RemoveControls(s) == SelectSeq(s, LAMBDA c : c \notin RemovedControls)

\* a cleaner whose second step does not ask for the backslash
RECURSIVE ReplaceHexText(_)
ReplaceHexText(s) ==
  IF s = <<>> THEN <<>>
  ELSE IF Len(s) >= 5 /\ SubSeq(s, 1, 5) = Tail(NbspEscape)
    THEN <<SP>> \o ReplaceHexText(SubSeq(s, 6, Len(s)))
  ELSE <<Head(s)>> \o ReplaceHexText(Tail(s))

CleanJsonStringAnyHexText(s) ==
  RemoveControls(ReplaceHexText(ReplaceNbsp(s)))

CleanJsonString(s) == RemoveControls(ReplaceNbspEscape(ReplaceNbsp(s)))

\* json.loads, strings: the scanner after the opening quote. A control
\* byte below 0x20 in a string is an error; the escapes are the JSON ones.
HexDigits == {"0", "7", "a"}
ControlBytes == {BEL, LF}
NoString == [ok |-> FALSE, value |-> <<>>, next |-> 0]

DecodeHex(h) ==
  IF h = <<"0", "0", "a", "0">> THEN NBSP
  ELSE IF h = <<"0", "0", "0", "7">> THEN BEL
  ELSE "U+other"

RECURSIVE ScanString(_, _, _)
ScanString(t, i, acc) ==
  IF i > Len(t) THEN NoString
  ELSE IF t[i] = Q THEN [ok |-> TRUE, value |-> acc, next |-> i + 1]
  ELSE IF t[i] \in ControlBytes THEN NoString
  ELSE IF t[i] = BS
    THEN IF i + 1 > Len(t) THEN NoString
         ELSE IF t[i + 1] \in {Q, BS, "/"}
           THEN ScanString(t, i + 2, Append(acc, t[i + 1]))
         ELSE IF t[i + 1] = "n" THEN ScanString(t, i + 2, Append(acc, LF))
         ELSE IF t[i + 1] = "u"
           THEN IF /\ i + 5 <= Len(t)
                   /\ \A k \in (i + 2)..(i + 5) : t[k] \in HexDigits
                  THEN ScanString(t, i + 6,
                         Append(acc, DecodeHex(SubSeq(t, i + 2, i + 5))))
                  ELSE NoString
         ELSE NoString
  ELSE ScanString(t, i + 1, Append(acc, t[i]))

\* the tokens at position i of t are toks
Expect(t, i, toks) ==
  /\ i + Len(toks) - 1 <= Len(t)
  /\ SubSeq(t, i, i + Len(toks) - 1) = toks

Doc(summary, action, content) ==
  [summary |-> summary,
   changes |-> <<[filePath |-> <<"a.py">>, action |-> action,
                  content |-> content]>>]

\* json.loads of a text of the shape that Render gives
JsonLoads(t) ==
  LET open == <<"{", Q, "summary", Q, ":", Q>>
      mid == <<",", Q, "changes", Q, ":", "[", "{", Q, "filePath", Q, ":",
               Q, "a.py", Q, ",", Q, "action", Q, ":", Q>>
      last == <<",", Q, "content", Q, ":", Q>>
      close == <<"}", "]", "}">>
      s == ScanString(t, Len(open) + 1, <<>>)
      a == ScanString(t, s.next + Len(mid), <<>>)
      c == ScanString(t, a.next + Len(last), <<>>)
  IN IF /\ Expect(t, 1, open)
        /\ s.ok
        /\ Expect(t, s.next, mid)
        /\ a.ok
        /\ Expect(t, a.next, last)
        /\ c.ok
        /\ Expect(t, c.next, close)
        /\ c.next + Len(close) - 1 = Len(t)
       THEN [ok |-> TRUE, doc |-> Doc(s.value, a.value, c.value)]
       ELSE NoDoc

\* json.loads raises RecursionError, which is no JSONDecodeError, on a
\* text nested deeper than the recursion limit allows
TooDeep(t) ==
  /\ Len(t) > RecursionLimit
  /\ \A i \in 1..(RecursionLimit + 1) : t[i] = "["

\* json.dumps, strings (ensure_ascii): what is written for one character
EncodeChar(c) ==
  IF c \in {Q, BS} THEN <<BS, c>>
  ELSE IF c = LF THEN <<BS, "n">>
  ELSE IF c = NBSP THEN NbspEscape
  ELSE IF c = BEL THEN <<BS, "u", "0", "0", "0", "7">>
  ELSE <<c>>

RECURSIVE EncodeString(_)
EncodeString(v) ==
  IF v = <<>> THEN <<>> ELSE EncodeChar(Head(v)) \o EncodeString(Tail(v))

\* json.dumps(cleaned_json, indent=4), without the white space between
\* the tokens
JsonDumps(d) ==
  Render(EncodeString(d.summary), EncodeString(d.changes[1].action),
         EncodeString(d.changes[1].content))

\* validate(instance, schema): the action is one of the schema's enum
SchemaValid(d) ==
  /\ Len(d.changes) = 1
  /\ d.changes[1].action \in {<<"CREATE">>, <<"REPLACE">>, <<"DELETE">>,
                              <<"PATCH">>}

\* the documents a repaired text parses to
RepairedDocs ==
  {Doc(s, <<a>>, c) : s \in {<<"a">>}, a \in ActionWords,
                      c \in {<<"a">>, <<BS, SP>>, <<Q>>}}

InitJson ==
  /\ output_dir \in Roots
  /\ fs = InitFs(output_dir, Absent)
  /\ revert_json = NoRevertFile
  /\ pc = "idle"
  /\ mode = "apply"
  /\ session_id = "none"
  /\ changes = <<>>
  /\ idx = 0
  /\ results = <<>>
  /\ new_revert_changes = <<>>
  /\ observed = <<>>
  /\ pre_fs = fs
  /\ pre_revert_json = revert_json
  /\ base_fs = fs
  /\ base_changes = <<>>
  /\ round_trip = FALSE
  /\ io_fault = FALSE
  /\ args = NoArgs
  /\ reverts_dir = NoRevertsDir
  /\ revert_files = <<>>
  /\ all_results = <<>>
  /\ run_pc = "idle"
  /\ run_log = <<>>
  /\ ReviewIdle
  /\ DecoderIdle
  /\ FixIdle
  /\ llm_json \in InputTexts
  /\ cleaned_str = <<>>
  /\ cleaned_json = NoDoc
  /\ json_pc = "start"
  /\ tier = 0
  /\ returned = <<>>

notJsonVars == <<output_dir, fs, revert_json, callVars, runVars,
                 reviewVars, decoderVars, fixVars>>

\* cleaned_str = clean_json_string(llm_json)
Clean ==
  /\ json_pc = "start"
  /\ cleaned_str' = CleanJsonString(llm_json)
  /\ json_pc' = "cleaned"
  /\ UNCHANGED <<llm_json, cleaned_json, tier, returned>>
  /\ UNCHANGED notJsonVars

\* ---- fix_and_parse_ai_json
\* the keys of MARKDOWN_ESCAPES whose character a text here can hold
MarkdownChars == {"_"}

\* _fix_global_markdown_escapes: backslash + character becomes the
\* character, everywhere in the text
RECURSIVE FixGlobalMarkdownEscapes(_)
FixGlobalMarkdownEscapes(t) ==
  IF t = <<>> THEN <<>>
  ELSE IF Len(t) >= 2 /\ t[1] = BS /\ t[2] \in MarkdownChars
    THEN <<t[2]>> \o FixGlobalMarkdownEscapes(SubSeq(t, 3, Len(t)))
  ELSE <<Head(t)>> \o FixGlobalMarkdownEscapes(Tail(t))

\* step (A) of _fix_json_string_content: a line feed becomes backslash n
RECURSIVE EscapeControls(_)
EscapeControls(c) ==
  IF c = <<>> THEN <<>>
  ELSE (IF Head(c) = LF THEN <<BS, "n">> ELSE <<Head(c)>>)
       \o EscapeControls(Tail(c))

\* the characters JSON_STRAY_BACKSLASH_PATTERN does not take after a run
\* of backslashes
EscapeChars == {Q, BS, "/", "b", "f", "n", "r", "t", "u"}

\* the length of the run of backslashes that starts at position i
RECURSIVE RunLength(_, _)
RunLength(c, i) ==
  IF i > Len(c) \/ c[i] # BS THEN 0 ELSE 1 + RunLength(c, i + 1)

\* _fix_stray_backslashes from position i on: a run of backslashes that
\* is followed by a character outside EscapeChars, or by the end of the
\* text, gets one more backslash when its length is odd
RECURSIVE FixStrayFrom(_, _)
FixStrayFrom(c, i) ==
  IF i > Len(c) THEN <<>>
  ELSE IF c[i] # BS THEN <<c[i]>> \o FixStrayFrom(c, i + 1)
  ELSE LET k == RunLength(c, i)
           run == SubSeq(c, i, i + k - 1)
           fixed == IF k % 2 = 1 THEN Append(run, BS) ELSE run
       IN IF i + k > Len(c) THEN fixed
          ELSE IF c[i + k] \in EscapeChars THEN run \o FixStrayFrom(c, i + k)
          ELSE fixed \o <<c[i + k]>> \o FixStrayFrom(c, i + k + 1)

FixStrayBackslashes(c) == FixStrayFrom(c, 1)

\* step (C): re.sub(r'(?<!\\)"', r"\"", ...): a quote that no backslash
\* stands before gets a backslash
EscapeQuotes(c) ==
  LET piece(i) == IF c[i] = Q /\ (i = 1 \/ c[i - 1] # BS)
                    THEN <<BS, Q>> ELSE <<c[i]>>
      glue[i \in 0..Len(c)] == IF i = 0 THEN <<>> ELSE glue[i - 1] \o piece(i)
  IN glue[Len(c)]

\* _fix_json_string_content
FixJsonStringContent(c) ==
  EscapeQuotes(FixStrayBackslashes(EscapeControls(c)))

\* the characters that \s matches
Whitespace == {SP, LF, NBSP}

\* the first position at or after i that holds no white space
RECURSIVE SkipWhitespace(_, _)
SkipWhitespace(t, i) ==
  IF i <= Len(t) /\ t[i] \in Whitespace THEN SkipWhitespace(t, i + 1) ELSE i

\* group 3 of TARGET_FIELD_PATTERN_TEMPLATE matches at j: a quote, white
\* space, then a comma or a closing brace; the position after the match
ClosesAt(t, j) ==
  LET e == SkipWhitespace(t, j + 1)
  IN IF j <= Len(t) /\ t[j] = Q /\ e <= Len(t) /\ t[e] \in {",", "}"}
       THEN e + 1 ELSE 0

\* the least j >= from at which group 3 matches, 0 when there is none
RECURSIVE FindClose(_, _)
FindClose(t, from) ==
  IF from > Len(t) THEN 0
  ELSE IF ClosesAt(t, from) # 0 THEN from
  ELSE FindClose(t, from + 1)

\* pattern.sub(_json_string_value_replacer, t) from position i on, for
\* the pattern of the field called name
RECURSIVE FieldSubFrom(_, _, _)
FieldSubFrom(t, name, i) ==
  IF i > Len(t) THEN <<>>
  ELSE LET p == SkipWhitespace(t, i + 4)
           j == FindClose(t, p + 1)
       IN IF /\ Expect(t, i, <<Q, name, Q, ":">>)
             /\ p <= Len(t)
             /\ t[p] = Q
             /\ j # 0
            THEN SubSeq(t, i, p)
                 \o FixJsonStringContent(SubSeq(t, p + 1, j - 1))
                 \o SubSeq(t, j, ClosesAt(t, j) - 1)
                 \o FieldSubFrom(t, name, ClosesAt(t, j))
            ELSE <<t[i]>> \o FieldSubFrom(t, name, i + 1)

\* fix_and_parse_ai_json up to "text_with_regex": the markdown escapes
\* are undone, then the summary and the content values are repaired
RegexRepair(t) ==
  FieldSubFrom(FieldSubFrom(FixGlobalMarkdownEscapes(t), "summary", 1),
               "content", 1)

\* a direct parse after which a repair is tried whatever it gave
DirectParseAlwaysRepairs ==
  /\ json_pc = "cleaned"
  /\ cleaned_json' = JsonLoads(cleaned_str)
  /\ json_pc' = IF TooDeep(cleaned_str) THEN "escaped" ELSE "repair"
  /\ tier' = 1
  /\ UNCHANGED <<llm_json, cleaned_str, returned>>
  /\ UNCHANGED notJsonVars

\* the direct parse of the cleaned text; only JSONDecodeError is caught,
\* so a RecursionError leaves the function
DirectParse ==
  /\ json_pc = "cleaned"
  /\ cleaned_json' = JsonLoads(cleaned_str)
  /\ json_pc' = IF TooDeep(cleaned_str) THEN "escaped"
                ELSE IF cleaned_json'.ok THEN "parsed" ELSE "repair"
  /\ tier' = 1
  /\ UNCHANGED <<llm_json, cleaned_str, returned>>
  /\ UNCHANGED notJsonVars

\* the texts a repair function whose scan is not spelled out here can
\* give: a text that parses, or the text it was given
OpenOutputs(t) == {JsonDumps(d) : d \in RepairedDocs} \cup {t}

\* the outcome of the parse of a tier's output: the state goes on to
\* validation, or to what comes after the tier
AfterTier(out, n, failed) ==
  /\ cleaned_str' = out
  /\ cleaned_json' = JsonLoads(out)
  /\ json_pc' = IF cleaned_json'.ok THEN "parsed" ELSE failed
  /\ tier' = n
  /\ UNCHANGED <<llm_json, returned>>
  /\ UNCHANGED notJsonVars

\* the direct parse failed: cleaned_str = fix_and_parse_ai_json(cleaned_str)
\* and its parse. When the text repaired by the two patterns parses it is
\* the result; otherwise the result is what _escape_quotes_in_string_fields
\* makes of the text, which is left open.
Tier2 ==
  /\ json_pc = "repair"
  /\ LET out == RegexRepair(cleaned_str)
     IN IF JsonLoads(out).ok THEN AfterTier(out, 2, "tier3")
        ELSE \E o \in OpenOutputs(out) : AfterTier(o, 2, "tier3")

\* cleaned_str = _aggressive_escape_quotes(llm_json) and its parse; what
\* the scan makes of the text is left open
Tier3 ==
  /\ json_pc = "tier3"
  /\ \E o \in OpenOutputs(llm_json) : AfterTier(o, 3, "tier4")

\* cleaned_str = _schema_aware_json_fix(llm_json) and its parse; what the
\* scan makes of the text is left open. A JSONDecodeError and a
\* JsonPreparationError of the fix are raised as JsonPreparationError.
Tier4 ==
  /\ json_pc = "tier4"
  /\ \E o \in OpenOutputs(llm_json) : AfterTier(o, 4, "raised")

\* the parsed document is validated against the schema and written out
ValidateAndReturn ==
  /\ json_pc = "parsed"
  /\ IF SchemaValid(cleaned_json.doc)
       THEN /\ returned' = JsonDumps(cleaned_json.doc)
            /\ json_pc' = "returned"
       ELSE /\ returned' = <<>>
            /\ json_pc' = "raised"
  /\ UNCHANGED <<llm_json, cleaned_str, cleaned_json, tier>>
  /\ UNCHANGED notJsonVars

NextJson ==
  Clean \/ DirectParse \/ Tier2 \/ Tier3 \/ Tier4 \/ ValidateAndReturn

SpecJson == InitJson /\ [][NextJson]_vars

\* ------------------------------------ the review server (review_server.py)
MaxReviewChanges == 2
MaxProjections == 2

\* the entries a changes file is built from; one has no filePath
ReviewChanges ==
  {Chg(P_a, "CREATE", "x"), Chg(P_a, "REPLACE", "y\n"),
   Chg(P_a, "REPLACE", "y\r\n"), Chg(P_a, "DELETE", ""),
   Chg(P_a, "PATCH", PatchXY), Chg(P_b, "CREATE", "x"),
   Chg(P_b, "DELETE", ""), Chg(<<>>, "CREATE", "x")}
ReviewLists ==
  UNION {[1..n -> ReviewChanges] : n \in 0..MaxReviewChanges}

\* the change lists a client posts to /api/apply and /api/save
PostedLists ==
  {<<>>, <<Chg(P_a, "REPLACE", "y\n")>>, <<Chg(P_a, "DELETE", "")>>,
   <<Chg(P_b, "CREATE", "x"), Chg(P_out, "CREATE", "x")>>}

ChangesFile(chs) == [ok |-> TRUE, changes |-> chs]
Response(items, m) == [status |-> 200, changes |-> items, mode |-> m]
ServerError == [status |-> 500, changes |-> <<>>, mode |-> "none"]

\* the response of do_GET to /api/context: the projection of the changes
\* file, or status 500 when the file cannot be loaded
ContextResponse(f, root, cf, m) ==
  IF cf.ok THEN Response(GetReviewContext(f, root, cf.changes), m)
  ELSE ServerError

\* the body of "for change in changes_list" of the handler's
\* _apply_changes: in apply mode a DELETE reads the text of the file
\* outside any inner try, so a file that cannot be read is not deleted
ServerApplyOne(f, root, change, m) ==
  LET target == Resolve(root, change.file_path)
      node == f[target]
      file_existed == Exists(node)
      original == OriginalContent(node)
      fp == change.file_path
  IN
  IF ~InsideRoot(root, target)
    THEN [fs |-> f, result |-> Result(fp, "FAILURE", TraversalReason), revert |-> <<>>]
  ELSE IF change.action \in {"CREATE", "REPLACE"}
    THEN IF node.kind = "dir"
      THEN [fs |-> f, result |-> Result(fp, "FAILURE", IoReason), revert |-> <<>>]
      ELSE [fs |-> [f EXCEPT ![target] = TextFile(change.content)],
            result |-> Result(fp, "SUCCESS", change.action),
            revert |-> Recorded(m, InverseOfWrite(change, file_existed, original))]
  ELSE IF change.action = "DELETE"
    THEN IF file_existed
      THEN IF node.kind = "dir" \/ (m = "apply" /\ node.kind # "text")
        THEN [fs |-> f, result |-> Result(fp, "FAILURE", IoReason), revert |-> <<>>]
        ELSE [fs |-> [f EXCEPT ![target] = Absent],
              result |-> Result(fp, "SUCCESS", change.action),
              revert |-> Recorded(m, InverseOfDelete(change, original))]
      ELSE [fs |-> f, result |-> Result(fp, "SKIPPED", DeleteSkipReason), revert |-> <<>>]
  ELSE [fs |-> f, result |-> Result(fp, "SUCCESS", change.action), revert |-> <<>>]

\* the loop of the handler's _apply_changes over the posted list
RECURSIVE ServerApplyLoop(_, _, _, _)
ServerApplyLoop(f, root, chs, m) ==
  IF chs = <<>> THEN [fs |-> f, results |-> <<>>, revert |-> <<>>]
  ELSE LET one == ServerApplyOne(f, root, Head(chs), m)
           rest == ServerApplyLoop(one.fs, root, Tail(chs), m)
       IN [fs |-> rest.fs, results |-> <<one.result>> \o rest.results,
           revert |-> one.revert \o rest.revert]

\* the handler's _apply_changes: the loop, then revert.json is written
\* when the mode is "apply" and something was recorded
ServerApplyChanges(f, root, rj, chs, m) ==
  LET done == ServerApplyLoop(f, root, chs, m)
  IN IF SavesRevert(m, done.revert)
       THEN SaveRevertData(done.fs, root, rj, done.revert, "none", "ok")
       ELSE [fs |-> done.fs, revert_json |-> rj, raised |-> FALSE]

\* the project the server is started on: "a" is missing, a text file with
\* LF or CR LF line ends, or not UTF-8 text; "b" is missing or a directory
InitReviewFs(root, a, b) ==
  [l \in Locs |->
    IF l = root \/ IsParentOf(l, root) THEN Dir
    ELSE IF l = Resolve(root, P_a) THEN a
    ELSE IF l = Resolve(root, P_b) THEN b
    ELSE Absent]

\* launch_review_server(output_dir, changes_file, mode) has started the
\* server; the changes file exists and may hold no JSON
InitReview ==
  /\ output_dir \in Roots
  /\ \E a \in {Absent, TextFile("x"), TextFile("y\n"), TextFile("y\r\n"),
               Binary} :
       \E b \in {Absent, Dir} : fs = InitReviewFs(output_dir, a, b)
  /\ revert_json = NoRevertFile
  /\ pc = "idle"
  /\ mode = "apply"
  /\ session_id = "none"
  /\ changes = <<>>
  /\ idx = 0
  /\ results = <<>>
  /\ new_revert_changes = <<>>
  /\ observed = <<>>
  /\ pre_fs = fs
  /\ pre_revert_json = revert_json
  /\ base_fs = fs
  /\ base_changes = <<>>
  /\ round_trip = FALSE
  /\ io_fault = FALSE
  /\ args = NoArgs
  /\ reverts_dir = NoRevertsDir
  /\ revert_files = <<>>
  /\ all_results = <<>>
  /\ run_pc = "idle"
  /\ run_log = <<>>
  /\ JsonIdle
  /\ changes_file \in {ChangesFile(l) : l \in ReviewLists} \cup {NoChangesFile}
  /\ ui_mode \in {"apply", "revert"}
  /\ last_context = NoResponse
  /\ projections = 0
  /\ DecoderIdle
  /\ FixIdle

notReviewVars == <<output_dir, callVars, runVars, jsonVars, decoderVars, fixVars>>

\* a handler that writes the projected list back to the changes file
GetContextSaving ==
  /\ projections < MaxProjections
  /\ last_context' = ContextResponse(fs, output_dir, changes_file, ui_mode)
  /\ projections' = projections + 1
  /\ changes_file' = IF changes_file.ok
                       THEN ChangesFile([i \in 1..Len(last_context'.changes) |->
                              Chg(last_context'.changes[i].filePath,
                                  last_context'.changes[i].action,
                                  last_context'.changes[i].proposed_content)])
                       ELSE changes_file
  /\ UNCHANGED <<fs, revert_json, ui_mode, notReviewVars>>

\* do_GET, path /api/context
GetContext ==
  /\ projections < MaxProjections
  /\ last_context' = ContextResponse(fs, output_dir, changes_file, ui_mode)
  /\ projections' = projections + 1
  /\ UNCHANGED <<fs, revert_json, changes_file, ui_mode, notReviewVars>>

\* do_POST, path /api/apply
PostApply ==
  \E chs \in PostedLists :
    LET done == ServerApplyChanges(fs, output_dir, revert_json, chs, ui_mode)
    IN /\ fs' = done.fs
       /\ revert_json' = done.revert_json
       /\ last_context' = NoResponse
       /\ projections' = 0
       /\ UNCHANGED <<changes_file, ui_mode, notReviewVars>>

\* do_POST, path /api/save: _save_changes_to_file replaces the changes file
PostSave ==
  \E chs \in PostedLists :
    /\ changes_file' = ChangesFile(chs)
    /\ last_context' = NoResponse
    /\ projections' = 0
    /\ UNCHANGED <<fs, revert_json, ui_mode, notReviewVars>>

NextReview == GetContext \/ PostApply \/ PostSave

SpecReview == InitReview /\ [][NextReview]_vars
\* ----------------- the decoder (decoder_service.py and decoder.py)
MaxDecoderChanges == 2

DecoderChanges ==
  {Chg(P_a, "CREATE", "x"), Chg(P_a, "DELETE", ""),
   Chg(P_b, "REPLACE", "y"), Chg(P_out, "CREATE", "x")}
DecoderLists ==
  UNION {[1..n -> DecoderChanges] : n \in 0..MaxDecoderChanges}

\* what input() gives at the prompt; "^C" is a KeyboardInterrupt
Interrupt == "^C"
Answers == {"y", "Y", " y", "n", "", Interrupt}

\* str.lower() and str.strip() on the answers
Lower(s) == IF s = "Y" THEN "y" ELSE s
Strip(s) == IF s = " y" THEN "y" ELSE s

\* the answer as DecoderService compares it, and as decoder.py does
ServiceAnswer(s) == Lower(s)
LegacyAnswer(s) == Strip(Lower(s))

\* a guard that looks at the confirmation only
ProceedsWithoutDryRunCheck(dry_run, auto_confirm, answer) ==
  auto_confirm \/ answer = "y"

\* the guards before "Applying changes...": a dry run returns, and
\* without auto_confirm any answer but "y" (or an interrupt) ends the call
Proceeds(dry_run, auto_confirm, answer) ==
  /\ ~dry_run
  /\ auto_confirm \/ answer = "y"

\* the body of the loop of DecoderService._apply_changes: no guard on the
\* path, and an error of open or os.remove leaves the call
ServiceWriteOne(f, root, change) ==
  LET target == Resolve(root, change.file_path)
      node == f[target]
  IN IF change.action \in {"CREATE", "REPLACE"}
       THEN IF node.kind = "dir" THEN [fs |-> f, raised |-> TRUE]
            ELSE [fs |-> [f EXCEPT ![target] = TextFile(change.content)],
                  raised |-> FALSE]
     ELSE IF change.action = "DELETE" /\ Exists(node)
       THEN IF node.kind = "dir" THEN [fs |-> f, raised |-> TRUE]
            ELSE [fs |-> [f EXCEPT ![target] = Absent], raised |-> FALSE]
     ELSE [fs |-> f, raised |-> FALSE]

\* the body of the loop of decoder.apply_changes: REPLACE and CREATE are
\* written inside try/except, every other action is skipped with a warning
LegacyWriteOne(f, root, change) ==
  LET target == Resolve(root, change.file_path)
      node == f[target]
  IN IF change.action \in {"CREATE", "REPLACE"} /\ node.kind # "dir"
       THEN [fs |-> [f EXCEPT ![target] = TextFile(change.content)],
             raised |-> FALSE]
       ELSE [fs |-> f, raised |-> FALSE]

WriteOne(by, f, root, change) ==
  IF by = "service" THEN ServiceWriteOne(f, root, change)
  ELSE LegacyWriteOne(f, root, change)

\* "for change in changes": the filesystem after the loop
RECURSIVE WriteAll(_, _, _, _)
WriteAll(by, f, root, chs) ==
  IF chs = <<>> THEN f
  ELSE LET one == WriteOne(by, f, root, Head(chs))
       IN IF one.raised THEN one.fs
          ELSE WriteAll(by, one.fs, root, Tail(chs))

\* the filesystem after a call of either function
DecoderApply(by, f, root, chs, dry_run, auto_confirm, confirm) ==
  LET answer == IF by = "service" THEN ServiceAnswer(confirm)
                ELSE LegacyAnswer(confirm)
  IN IF Proceeds(dry_run, auto_confirm, answer)
       THEN WriteAll(by, f, root, chs)
       ELSE f

InitDecoder ==
  /\ output_dir \in Roots
  /\ \E a \in {Absent, TextFile("x"), Binary} : \E b \in {Absent, Dir} :
       fs = [InitReviewFs(output_dir, a, b)
               EXCEPT ![Resolve(output_dir, P_out)] = TextFile("z")]
  /\ revert_json = NoRevertFile
  /\ pc = "idle"
  /\ mode = "apply"
  /\ session_id = "none"
  /\ changes = <<>>
  /\ idx = 0
  /\ results = <<>>
  /\ new_revert_changes = <<>>
  /\ observed = <<>>
  /\ pre_fs = fs
  /\ pre_revert_json = revert_json
  /\ base_fs = fs
  /\ base_changes = <<>>
  /\ round_trip = FALSE
  /\ io_fault = FALSE
  /\ args = NoArgs
  /\ reverts_dir = NoRevertsDir
  /\ revert_files = <<>>
  /\ all_results = <<>>
  /\ run_pc = "idle"
  /\ run_log = <<>>
  /\ JsonIdle
  /\ ReviewIdle
  /\ DecoderIdle
  /\ FixIdle

notDecoderVars ==
  <<output_dir, revert_json, callVars, runVars, jsonVars, reviewVars,
    fixVars>>

Call(by, chs, dry_run, auto_confirm, confirm) ==
  [by |-> by, changes |-> chs, dry_run |-> dry_run,
   auto_confirm |-> auto_confirm, confirm |-> confirm]

\* the one call of by(changes, dry_run, auto_confirm) that a run of the
\* decode command makes, with the user's answer
DecoderCall(by) ==
  \E chs \in DecoderLists : \E dry_run, auto_confirm \in BOOLEAN :
    \E confirm \in Answers :
      /\ decoder_call = NoCall
      /\ decoder_call' = Call(by, chs, dry_run, auto_confirm, confirm)
      /\ decoder_pre_fs' = fs
      /\ fs' = DecoderApply(by, fs, output_dir, chs, dry_run, auto_confirm,
                            confirm)
      /\ UNCHANGED notDecoderVars

\* DecoderService._apply_changes(changeset, dry_run, auto_confirm)
ServiceApplyChanges == DecoderCall("service")

\* decoder.apply_changes(changes_data, output_dir, dry_run, auto_confirm)
LegacyApplyChanges == DecoderCall("legacy")

NextDecoder == ServiceApplyChanges \/ LegacyApplyChanges

SpecDecoder == InitDecoder /\ [][NextDecoder]_vars
\* ================================================ the repair functions
\* _fix_json_string_content and _schema_aware_json_fix, each called on
\* its own

MaxSpanPieces == 4
MaxContentPieces == 3

\* the texts a run gives to the function called by: "content" is
\* _fix_json_string_content, which gets a captured summary or content
\* span; "schema" is _schema_aware_json_fix, which gets a change document,
\* whole or cut off inside its summary or its last content value; "value"
\* is read_and_fix_string_value, which gets the text from the opening
\* quote of a content value on
FixInputs(by) ==
  LET SpanPieces ==
        {<<BS>>, <<"u">>, <<"0", "0", "a", "0">>, <<"W">>, <<Q>>, <<LF>>,
         <<"n">>}
      ContentPieces ==
        {<<"a">>, <<Q>>, <<BS>>, <<SP>>, <<"}">>, <<"]">>,
         <<",", Q, "action", Q>>, <<",", Q, "filePath", Q>>}
      RECURSIVE UpTo(_, _)
      UpTo(pieces, n) ==
        IF n = 0 THEN {<<>>}
        ELSE LET B == UpTo(pieces, n - 1)
             IN B \cup {b \o p : b \in B, p \in pieces}
      Contents == UpTo(ContentPieces, MaxContentPieces)
      Summaries == {<<"a">>, <<"a", Q, "]">>, <<"a", Q, "b">>}
      Whole(s, c) == Render(s, <<"CREATE">>, c)
      CutInContent(s, c) == SubSeq(Whole(s, c), 1, Len(Whole(s, c)) - 4)
      CutInSummary(s) == <<"{", Q, "summary", Q, ":", Q>> \o s
  IN IF by = "content" THEN UpTo(SpanPieces, MaxSpanPieces) \ {<<>>}
     ELSE IF by = "schema"
       THEN {Whole(s, c) : s \in Summaries, c \in Contents}
            \cup {CutInContent(s, c) : s \in Summaries, c \in Contents}
            \cup {CutInSummary(s) : s \in Summaries}
            \cup {<<"[", "]">>}
     ELSE {c \o e : c \in Contents, e \in {<<>>, <<Q, "}", "]", "}">>}}

\* lookahead = text[pos + 1:min(len(text), pos + 50)]
LookaheadChars == 49

\* a test that takes every unescaped quote as the end of the value
EndsValueAtAnyQuote(t, pos, field_name) == TRUE

\* the tests of read_and_fix_string_value on the unescaped quote at pos:
\* it ends a content value when the lookahead starts with a closing brace,
\* after optional white space, or with a comma and "filePath"; it ends
\* the value of another field when the lookahead starts with a closing
\* brace or bracket, or with a comma and a known field name
EndsValue(t, pos, field_name) ==
  LET Width(c) ==
        IF c \in {"summary", "changes", "content"} THEN 7
        ELSE IF c = "filePath" THEN 8
        ELSE IF c \in {"action", "CREATE"} THEN 6
        ELSE IF c = "a.py" THEN 4
        ELSE 1
      RECURSIVE TakeChars(_, _)
      TakeChars(i, room) ==
        IF i > Len(t) \/ Width(t[i]) > room THEN <<>>
        ELSE <<t[i]>> \o TakeChars(i + 1, room - Width(t[i]))
      lookahead == TakeChars(pos + 1, LookaheadChars)
      ClosingNext(closers) ==
        LET e == SkipWhitespace(lookahead, 1)
        IN e <= Len(lookahead) /\ lookahead[e] \in closers
      FieldNext(names) ==
        /\ Len(lookahead) >= 1
        /\ lookahead[1] = ","
        /\ LET e == SkipWhitespace(lookahead, 2)
           IN /\ e + 2 <= Len(lookahead)
              /\ lookahead[e] = Q
              /\ lookahead[e + 1] \in names
              /\ lookahead[e + 2] = Q
  IN IF field_name = "content"
       THEN ClosingNext({"}"}) \/ FieldNext({"filePath"})
       ELSE \/ ClosingNext({"}", "]"})
            \/ FieldNext({"summary", "changes", "filePath", "action",
                          "content"})

\* read_and_fix_string_value(pos, field_name), pos after the opening
\* quote: (fixed_value, position, found_closing_quote)
RECURSIVE ReadAndFixStringValue(_, _, _, _, _)
ReadAndFixStringValue(t, pos, field_name, value_chars, escaped) ==
  IF pos > Len(t)
    THEN [value |-> value_chars, pos |-> pos, found |-> FALSE]
  ELSE IF escaped
    THEN ReadAndFixStringValue(t, pos + 1, field_name,
                               Append(value_chars, t[pos]), FALSE)
  ELSE IF t[pos] = BS
    THEN IF /\ pos + 1 <= Len(t)
            /\ t[pos + 1] \in {Q, BS, "/", ":", "b", "f", "n", "r", "t", "u"}
           THEN ReadAndFixStringValue(t, pos + 1, field_name,
                                      Append(value_chars, BS), TRUE)
           ELSE ReadAndFixStringValue(t, pos + 1, field_name,
                                      value_chars \o <<BS, BS>>, FALSE)
  ELSE IF t[pos] = Q
    THEN IF EndsValue(t, pos, field_name)
           THEN [value |-> value_chars, pos |-> pos, found |-> TRUE]
           ELSE ReadAndFixStringValue(t, pos + 1, field_name,
                                      value_chars \o <<BS, Q>>, FALSE)
  ELSE IF t[pos] = LF
    THEN ReadAndFixStringValue(t, pos + 1, field_name,
                               value_chars \o <<BS, "n">>, FALSE)
  ELSE ReadAndFixStringValue(t, pos + 1, field_name,
                             Append(value_chars, t[pos]), FALSE)

\* _schema_aware_json_fix(text): ok is false when it raises
\* JsonPreparationError("Expected opening { at start"). The state st of
\* the walk is the result list and the position i
SchemaAwareJsonFix(text) ==
  LET t == CleanJsonString(text)
      \* skip_whitespace(pos): the white space is appended to the result
      RECURSIVE SkipBlanks(_)
      SkipBlanks(st) ==
        IF st.i <= Len(t) /\ t[st.i] \in {SP, LF}
          THEN SkipBlanks([out |-> Append(st.out, t[st.i]), i |-> st.i + 1])
          ELSE st
      \* if text[i] == ch: result.append(ch); i += 1
      Take(st, ch) ==
        IF st.i <= Len(t) /\ t[st.i] = ch
          THEN [out |-> Append(st.out, ch), i |-> st.i + 1]
          ELSE st
      \* the position of the first quote at or after i, 0 without one
      RECURSIVE NextQuote(_)
      NextQuote(i) ==
        IF i > Len(t) THEN 0 ELSE IF t[i] = Q THEN i ELSE NextQuote(i + 1)
      \* read_field_name(pos): the text from the opening quote through
      \* the next quote, or through the end, is appended as it is
      ReadFieldName(st) ==
        IF st.i > Len(t) \/ t[st.i] # Q THEN st
        ELSE LET j == NextQuote(st.i + 1)
             IN IF j = 0
                  THEN [out |-> st.out \o SubSeq(t, st.i, Len(t)),
                        i |-> Len(t) + 1]
                  ELSE [out |-> st.out \o SubSeq(t, st.i, j), i |-> j + 1]
      \* a string value at i: the opening quote, the fixed value and a
      \* closing quote, which is added when the value ran to the end
      ReadValue(st, field_name) ==
        IF st.i > Len(t) \/ t[st.i] # Q THEN st
        ELSE LET r == ReadAndFixStringValue(t, st.i + 1, field_name, <<>>,
                                            FALSE)
             IN [out |-> Append(st.out, Q) \o r.value \o <<Q>>,
                 i |-> IF r.found THEN r.pos + 1 ELSE r.pos]
      \* field name, colon and value
      ReadField(st, field_name) ==
        LET a == SkipBlanks(ReadFieldName(st))
            b == SkipBlanks(Take(a, ":"))
        IN ReadValue(b, field_name)
      \* for field_idx in range(3): the third value is the content
      ReadChangeField(st, field_idx) ==
        LET a == SkipBlanks(st)
            b == IF field_idx > 0 THEN SkipBlanks(Take(a, ",")) ELSE a
        IN ReadField(b, IF field_idx = 2 THEN "content" ELSE "none")
      \* the loop over the change objects
      RECURSIVE ReadChanges(_, _)
      ReadChanges(st, first_change) ==
        IF st.i > Len(t) THEN st
        ELSE LET a == SkipBlanks(st)
                 b == IF first_change THEN a ELSE SkipBlanks(Take(a, ","))
             IN IF a.i <= Len(t) /\ t[a.i] = "]" THEN Take(a, "]")
                ELSE IF b.i > Len(t) \/ t[b.i] # "{" THEN b
                ELSE LET f0 == ReadChangeField(Take(b, "{"), 0)
                         f1 == ReadChangeField(f0, 1)
                         f2 == ReadChangeField(f1, 2)
                     IN ReadChanges(Take(SkipBlanks(f2), "}"), FALSE)
      s0 == SkipBlanks([out |-> <<>>, i |-> 1])
      s1 == ReadField(SkipBlanks(Take(s0, "{")), "none")
      s2 == SkipBlanks(Take(SkipBlanks(s1), ","))
      s3 == SkipBlanks(ReadFieldName(s2))
      s4 == SkipBlanks(Take(s3, ":"))
      s5 == ReadChanges(Take(s4, "["), TRUE)
      s6 == Take(SkipBlanks(s5), "}")
  IN IF s0.i > Len(t) \/ t[s0.i] # "{" THEN NoFix
     ELSE [ok |-> TRUE, text |-> s6.out \o SubSeq(t, s6.i, Len(t))]

InitFix ==
  /\ output_dir \in Roots
  /\ fs = InitFs(output_dir, Absent)
  /\ revert_json = NoRevertFile
  /\ pc = "idle"
  /\ mode = "apply"
  /\ session_id = "none"
  /\ changes = <<>>
  /\ idx = 0
  /\ results = <<>>
  /\ new_revert_changes = <<>>
  /\ observed = <<>>
  /\ pre_fs = fs
  /\ pre_revert_json = revert_json
  /\ base_fs = fs
  /\ base_changes = <<>>
  /\ round_trip = FALSE
  /\ io_fault = FALSE
  /\ args = NoArgs
  /\ reverts_dir = NoRevertsDir
  /\ revert_files = <<>>
  /\ all_results = <<>>
  /\ run_pc = "idle"
  /\ run_log = <<>>
  /\ JsonIdle
  /\ ReviewIdle
  /\ DecoderIdle
  /\ fix_by \in {"content", "schema", "value"}
  /\ fix_input \in FixInputs(fix_by)
  /\ fix_pc = "start"
  /\ fix_output = NoFix

notFixVars == <<output_dir, fs, revert_json, callVars, runVars, jsonVars,
                reviewVars, decoderVars>>

\* _fix_json_string_content(content), as _json_string_value_replacer
\* calls it on group 2 of a match
FixContent ==
  /\ fix_pc = "start"
  /\ fix_by = "content"
  /\ fix_pc' = "returned"
  /\ fix_output' = [ok |-> TRUE, text |-> FixJsonStringContent(fix_input)]
  /\ UNCHANGED <<fix_by, fix_input, notFixVars>>

\* _schema_aware_json_fix(text)
SchemaFix ==
  /\ fix_pc = "start"
  /\ fix_by = "schema"
  /\ fix_pc' = "returned"
  /\ fix_output' = SchemaAwareJsonFix(fix_input)
  /\ UNCHANGED <<fix_by, fix_input, notFixVars>>

\* read_and_fix_string_value(pos, "content") with pos after the opening
\* quote of the value
ReadContentValue ==
  /\ fix_pc = "start"
  /\ fix_by = "value"
  /\ fix_pc' = "returned"
  /\ LET r == ReadAndFixStringValue(fix_input, 1, "content", <<>>, FALSE)
     IN fix_output' = [ok |-> r.found, text |-> r.value, pos |-> r.pos]
  /\ UNCHANGED <<fix_by, fix_input, notFixVars>>

NextFix == FixContent \/ SchemaFix \/ ReadContentValue

SpecFix == InitFix /\ [][NextFix]_vars

\* ============================== apply_changes on a project whose file
\* has CR LF line ends

\* the project before the first call: "a" is a text file that holds a
\* line ended by CR LF
InitCrLf ==
  /\ output_dir \in Roots
  /\ fs = InitFs(output_dir, TextFile("y\r\n"))
  /\ revert_json = NoRevertFile
  /\ pc = "idle"
  /\ mode = "apply"
  /\ session_id = "none"
  /\ changes = <<>>
  /\ idx = 0
  /\ results = <<>>
  /\ new_revert_changes = <<>>
  /\ observed = <<>>
  /\ pre_fs = fs
  /\ pre_revert_json = revert_json
  /\ base_fs = fs
  /\ base_changes = <<>>
  /\ round_trip = FALSE
  /\ io_fault = FALSE
  /\ args = NoArgs
  /\ reverts_dir = NoRevertsDir
  /\ revert_files = <<>>
  /\ all_results = <<>>
  /\ run_pc = "idle"
  /\ run_log = <<>>
  /\ JsonIdle
  /\ ReviewIdle
  /\ DecoderIdle
  /\ FixIdle

SpecCrLf == InitCrLf /\ [][Next]_vars
\* ============================================================ the claims
\* a target that is neither the root nor below it, said without the guard
Escapes(root, target) ==
  \/ Len(target) < Len(root)
  \/ \E i \in 1..Len(root) : target[i] # root[i]

TargetOf(i) == Resolve(output_dir, changes[i].file_path)

\* the node at a location when it is a file, Absent otherwise
FileAt(f, l) == IF f[l].kind \in {"text", "binary"} THEN f[l] ELSE Absent

\* C1: a change whose path resolves outside the project root gets the
\* FAILURE result "Directory traversal attempt blocked.", no location
\* outside the root is created, modified or deleted by the call, and the
\* call ends only after every change of the list has got its result.
C1_TraversalBlocked ==
  /\ \A i \in 1..idx :
       Escapes(output_dir, TargetOf(i)) =>
         results[i] = Result(changes[i].file_path, "FAILURE", TraversalReason)
  /\ \A l \in Locs : Escapes(output_dir, l) => fs[l] = pre_fs[l]
  /\ pc \in {"returned", "raised"} => Len(results) = Len(changes)

\* C1 witness: a call returned in which a blocked change is followed by a
\* change that succeeded
C1_Witness ==
  /\ pc = "returned"
  /\ \E i \in 1..idx : \E j \in 1..idx :
       /\ i < j
       /\ Escapes(output_dir, TargetOf(i))
       /\ results[i].status = "FAILURE"
       /\ results[j].status = "SUCCESS"

\* the project holds no file: every location below the root is absent or
\* a directory
EmptyProject(f) ==
  \A l \in Locs : IsParentOf(output_dir, l) => f[l].kind \in {"absent", "dir"}

\* C2: a change list of CREATE, REPLACE and DELETE changes (a path may
\* repeat, with different actions) is applied to an empty project and the
\* recorded revert changes are then applied in revert mode, with no I/O
\* error: every file has again the existence and content it had before
\* the apply.
C2_RoundTripRestores ==
  ( /\ pc = "returned"
    /\ round_trip
    /\ ~io_fault
    /\ EmptyProject(base_fs)
    /\ \A i \in 1..Len(base_changes) :
         base_changes[i].action \in {"CREATE", "REPLACE", "DELETE"}
    /\ \A i \in 1..Len(base_changes) : \A j \in 1..Len(base_changes) :
         (i # j /\ base_changes[i].file_path = base_changes[j].file_path)
           => base_changes[i].action # base_changes[j].action )
  => \A l \in Locs : FileAt(fs, l) = FileAt(base_fs, l)

\* C3: the call never raises, and it returns one result per input change,
\* in input order, each SUCCESS, SKIPPED or FAILURE.
C3_CompleteResults ==
  /\ pc # "raised"
  /\ pc = "returned" =>
       /\ Len(results) = Len(changes)
       /\ \A i \in 1..Len(changes) :
            /\ results[i].filePath = changes[i].file_path
            /\ results[i].status \in {"SUCCESS", "SKIPPED", "FAILURE"}

\* the inverse the claim C4 asks for, from the node seen before the pass
C4_Inverse(change, node, prior) ==
  IF change.action = "DELETE" THEN Chg(change.file_path, "CREATE", prior)
  ELSE IF node.kind = "absent" THEN Chg(change.file_path, "DELETE", "")
  ELSE Chg(change.file_path, "REPLACE", prior)

\* the inverses of the CREATE, REPLACE and DELETE changes among the first
\* n that succeeded; prior(node) is the content the inverse carries
RECURSIVE C4_Expected(_, _)
C4_Expected(n, literal) ==
  IF n = 0 THEN <<>>
  ELSE C4_Expected(n - 1, literal) \o
       ( IF /\ results[n].status = "SUCCESS"
            /\ changes[n].action \in {"CREATE", "REPLACE", "DELETE"}
           THEN << C4_Inverse(changes[n], observed[n],
                     IF literal THEN observed[n].content
                     ELSE IF observed[n].kind = "text"
                       THEN ReadText(observed[n].content)
                     ELSE "") >>
           ELSE <<>> )

C5_RevertModeKeepsRevertData ==
  (mode = "revert" /\ pc # "idle") => revert_json = pre_revert_json

\* C5 witness: a revert-mode call that changed a file returned while revert
\* data of an earlier apply is on disk
C5_Witness ==
  /\ mode = "revert"
  /\ pc = "returned"
  /\ revert_json.exists
  /\ \E i \in 1..idx : results[i].status = "SUCCESS"
  /\ fs # pre_fs

\* number of revert session files on disk
SessionFileCount(rj) == IF rj.exists THEN 1 ELSE 0

\* C6: an apply call that recorded inverse changes and returned has added
\* one session file, and the session that was on disk before is still
\* there unchanged.
C6_SessionsAccumulate ==
  (pc = "returned" /\ SavesRevert(mode, new_revert_changes)) =>
    /\ SessionFileCount(revert_json) = SessionFileCount(pre_revert_json) + 1
    /\ pre_revert_json.exists => revert_json = pre_revert_json

\* a PATCH that cannot be applied to the node: the file is no text, the
\* patch is malformed or its context is not the file's text
PatchFails(node, patch) ==
  node.kind # "text" \/ ~GetPatchedContent(node.content, patch).ok

\* C8: the change just processed is a PATCH on an existing file whose patch
\* is malformed or does not match: its result is FAILURE, the file is as
\* it was and no inverse was recorded for it.
C8_BadPatchFails ==
  ( /\ pc = "loop"
    /\ idx > 0
    /\ changes[idx].action = "PATCH"
    /\ Exists(observed[idx])
    /\ PatchFails(observed[idx], changes[idx].content) )
  => /\ results[idx].status = "FAILURE"
     /\ fs[TargetOf(idx)] = observed[idx]

\* C9: the change just processed is a PATCH that succeeded in apply mode:
\* the last inverse recorded is REPLACE with the full pre-patch text; and
\* revert.json never holds a PATCH change.
C9_PatchInverseIsReplace ==
  /\ \A i \in 1..Len(revert_json.changes) : revert_json.changes[i].action # "PATCH"
  /\ ( /\ pc = "loop"
       /\ idx > 0
       /\ mode = "apply"
       /\ changes[idx].action = "PATCH"
       /\ results[idx].status = "SUCCESS" )
     => /\ new_revert_changes # <<>>
        /\ new_revert_changes[Len(new_revert_changes)] =
             Chg(changes[idx].file_path, "REPLACE", observed[idx].content)

\* C7: in a revert of all sessions (--all, no --files) a session file is
\* deleted only when every change handed to the engine for it ended in
\* SUCCESS or SKIPPED; a session with a FAILURE result is still on disk.
C7_DeletedOnlyAfterFullSuccess ==
  (args.all /\ args.files = {}) =>
    \A i \in 1..Len(run_log) :
      (\E j \in 1..Len(run_log[i].results) :
          run_log[i].results[j].status = "FAILURE")
        => /\ ~run_log[i].deleted
           /\ run_log[i].file \in DOMAIN reverts_dir.files

\* a text that parses as JSON and satisfies the change-document schema
ValidInput(t) == JsonLoads(t).ok /\ SchemaValid(JsonLoads(t).doc)

\* the call treats its input as the direct parse does: no repair function
\* runs, the call does not raise, and what it returns parses to the
\* document that the input parses to
SameAsDirectParse ==
  /\ tier <= 1
  /\ json_pc \notin {"repair", "raised"}
  /\ json_pc = "returned" =>
       /\ JsonLoads(returned).ok
       /\ JsonLoads(returned).doc = JsonLoads(llm_json).doc

\* C10 as stated: for every input that parses as JSON and satisfies the
\* schema, clean_prepare_json_string returns a document equal to the direct
\* parse of the input (summary, filePath, action and content unaltered) and
\* runs no repair tier.
C10_ValidInputUnaltered == ValidInput(llm_json) => SameAsDirectParse

\* a text without a raw non-breaking space, without the literal text
\* backslash-u00a0 and without a control byte that cleaning removes
NothingToClean(t) ==
  /\ \A i \in 1..Len(t) : t[i] \notin {NBSP, DEL, BEL}
  /\ \A i \in 1..Len(t) :
       ~(/\ i + 5 <= Len(t)
         /\ t[i] = BS /\ t[i + 1] = "u" /\ t[i + 2] = "0" /\ t[i + 3] = "0"
         /\ t[i + 4] = "a" /\ t[i + 5] = "0")

\* C10 amended: for every input that parses as JSON, satisfies the schema
\* and holds no raw non-breaking space, no literal backslash-u00a0 and no
\* removed control byte, clean_prepare_json_string returns a document equal
\* to the direct parse of the input and runs no repair tier.
C10_CleanValidInputUnaltered ==
  (ValidInput(llm_json) /\ NothingToClean(llm_json)) => SameAsDirectParse

\* C10 witness: the call returned for a valid input with nothing to clean
\* whose content holds an escaped backslash
C10_Witness ==
  /\ json_pc = "returned"
  /\ ValidInput(llm_json)
  /\ NothingToClean(llm_json)
  /\ tier = 1
  /\ \E i \in 1..Len(JsonLoads(llm_json).doc.changes[1].content) :
       JsonLoads(llm_json).doc.changes[1].content[i] = BS

\* the pass about to run is a DELETE, inside the root, of a missing target
DeleteOfMissing ==
  /\ pc = "loop"
  /\ idx < Len(changes)
  /\ changes[idx + 1].action = "DELETE"
  /\ ~Escapes(output_dir, TargetOf(idx + 1))
  /\ fs[TargetOf(idx + 1)].kind = "absent"

\* C17: the pass for a DELETE change whose target does not exist appends
\* the SKIPPED result with the reason "File not found for DELETE", leaves
\* the filesystem as it was and appends no inverse to the revert list.
C17_DeleteMissingSkipped ==
  [][(DeleteOfMissing /\ idx' = idx + 1) =>
       /\ results' = Append(results,
                       Result(changes[idx + 1].file_path, "SKIPPED",
                              DeleteSkipReason))
       /\ fs' = fs
       /\ new_revert_changes' = new_revert_changes]_vars

\* C17 witness: an apply-mode call returned with a SKIPPED result for a
\* DELETE that found nothing, and with no inverse recorded
C17_Witness ==
  /\ pc = "returned"
  /\ mode = "apply"
  /\ new_revert_changes = <<>>
  /\ fs = pre_fs
  /\ \E i \in 1..Len(results) :
       /\ changes[i].action = "DELETE"
       /\ observed[i].kind = "absent"
       /\ results[i] = Result(changes[i].file_path, "SKIPPED", DeleteSkipReason)

\* the review projection in the words of the spec: whether a change is
\* listed, and the change that is listed for it
Listed(f, c) ==
  LET node == f[Resolve(output_dir, c.file_path)]
  IN IF node.kind = "absent"
       THEN c.action \in {"CREATE", "REPLACE"}
       ELSE \/ c.action = "DELETE"
            \/ /\ c.action \in {"CREATE", "REPLACE"}
               /\ ~(node.kind = "text" /\ node.content = c.content)

EffectiveChange(f, c) ==
  LET node == f[Resolve(output_dir, c.file_path)]
  IN Chg(c.file_path,
         IF node.kind = "absent" THEN "CREATE"
         ELSE IF c.action = "CREATE" THEN "REPLACE" ELSE c.action,
         IF c.action = "DELETE" THEN "" ELSE c.content)

\* the file path is one of the paths given with --files
Requested(fp) == \E x \in args.files : AsPosix(x) = AsPosix(fp)

\* the changes of a session file with a requested path, in their order:
\* as they stand in the file (literal), or as the review projection lists
\* them
RECURSIVE C16_Expected(_, _, _)
C16_Expected(f, chs, literal) ==
  IF chs = <<>> THEN <<>>
  ELSE LET c == Head(chs)
           rest == C16_Expected(f, Tail(chs), literal)
       IN IF ~Requested(c.file_path) THEN rest
          ELSE IF literal THEN <<c>> \o rest
          ELSE IF Listed(f, c) THEN <<EffectiveChange(f, c)>> \o rest
          ELSE rest

\* the run, given --files, turns to the next session file
SelectiveTurn ==
  /\ run_pc = "next"
  /\ revert_files # <<>>
  /\ args.files # {}
  /\ revert_files' = Tail(revert_files)

C16_Passes(literal) ==
  LET expected == C16_Expected(fs, reverts_dir.files[Head(revert_files)],
                               literal)
  IN IF expected = <<>>
       THEN pc' = "idle" /\ fs' = fs /\ reverts_dir' = reverts_dir
       ELSE pc' = "loop" /\ mode' = "revert" /\ changes' = expected

C18_NewestFirstOneAtATime ==
  /\ \A i \in 1..Len(run_log) : \A j \in 1..Len(run_log) :
       i < j => run_log[i].file > run_log[j].file
  /\ \A i \in 1..Len(run_log) : \A k \in 1..Len(revert_files) :
       revert_files[k] < run_log[i].file
  /\ \A k \in 1..Len(revert_files) : \A l \in 1..Len(revert_files) :
       k < l => revert_files[k] > revert_files[l]
  /\ \A i \in 1..Len(run_log) :
       (i < Len(run_log) /\ run_log[i].applied) =>
         Len(run_log[i].results) = Len(run_log[i].given)
  /\ (pc = "loop" /\ run_pc = "applying") => run_log[Len(run_log)].applied
  /\ (run_pc = "done" /\ run_log # <<>>) =>
       \A n \in DOMAIN reverts_dir.files :
         \E i \in 1..Len(run_log) : run_log[i].file = n

\* C18 witness: a revert of all sessions has ended after it applied
\* session 2 and then session 1
C18_Witness ==
  /\ run_pc = "done"
  /\ args.all /\ args.files = {}
  /\ Len(run_log) = 2
  /\ run_log[1].file = 2 /\ run_log[1].applied /\ run_log[1].results # <<>>
  /\ run_log[2].file = 1 /\ run_log[2].applied /\ run_log[2].results # <<>>

\* ---- the review projection
\* the server has answered /api/context and nothing was written since
Projected == last_context.status = 200
StoredChanges == {changes_file.changes[i] : i \in 1..Len(changes_file.changes)}
ShownItems == {last_context.changes[i] : i \in 1..Len(last_context.changes)}
NodeOf(c) == fs[Resolve(output_dir, c.file_path)]

\* the review list has an item for the stored change c
Shown(c) ==
  \E it \in ShownItems :
    /\ it.filePath = c.file_path
    /\ it.proposed_content = c.content

\* C13: in the review projection a CREATE or REPLACE whose target is an
\* existing file is left out of the review list when its proposed content
\* equals the content on disk (equal digests), and is in the list when the
\* two differ
C13_NoOpSuppressed ==
  Projected =>
    \A c \in StoredChanges :
      (/\ c.file_path # <<>>
       /\ c.action \in {"CREATE", "REPLACE"}
       /\ NodeOf(c).kind \in {"text", "binary"})
      => (Shown(c) <=> NodeOf(c).content # c.content)

C19_EffectiveAction ==
  Projected =>
    /\ \A it \in ShownItems :
         IF Exists(fs[Resolve(output_dir, it.filePath)])
           THEN it.action \in {"REPLACE", "DELETE"}
           ELSE it.action = "CREATE"
    /\ \A c \in StoredChanges :
         c.file_path # <<>> =>
           /\ (c.action = "DELETE" /\ Exists(NodeOf(c))) =>
                \E it \in ShownItems :
                  it.filePath = c.file_path /\ it.action = "DELETE"
           /\ (c.action = "DELETE" /\ ~Exists(NodeOf(c))) =>
                ~\E it \in ShownItems : it.filePath = c.file_path
                                          /\ it.action = "DELETE"
           /\ (c.action \in {"CREATE", "REPLACE"} /\ ~Exists(NodeOf(c))) =>
                \E it \in ShownItems :
                  /\ it.filePath = c.file_path
                  /\ it.action = "CREATE"
                  /\ it.proposed_content = c.content

\* a stored CREATE of an existing file is shown as REPLACE next to a stored
\* CREATE of a missing file that is shown as CREATE
C19_Witness ==
  /\ Projected
  /\ \E c \in StoredChanges :
       /\ c.action = "CREATE" /\ c.file_path # <<>> /\ Exists(NodeOf(c))
       /\ \E it \in ShownItems :
            it.filePath = c.file_path /\ it.action = "REPLACE"
                                      /\ it.proposed_content = c.content
  /\ \E c \in StoredChanges :
       /\ c.action = "CREATE" /\ c.file_path # <<>> /\ ~Exists(NodeOf(c))
       /\ \E it \in ShownItems :
            it.filePath = c.file_path /\ it.action = "CREATE"

\* ---- the decoder
\* the user was asked and did not answer yes
Declined ==
  /\ ~decoder_call.dry_run
  /\ ~decoder_call.auto_confirm
  /\ decoder_call.confirm \in {"n", "", Interrupt}

\* C15: after a call that was a dry run, or in which the user declined
\* the confirmation, the filesystem is the one the call started with
C15_NoMutationWithoutConsent ==
  (decoder_call.by # "none" /\ (decoder_call.dry_run \/ Declined))
    => fs = decoder_pre_fs

\* the user answers "n" to a change list that would have created a file
C15_Witness ==
  /\ decoder_call.by = "service"
  /\ Declined
  /\ decoder_call.confirm = "n"
  /\ \E i \in 1..Len(decoder_call.changes) :
       /\ decoder_call.changes[i].action = "CREATE"
       /\ fs[Resolve(output_dir, decoder_call.changes[i].file_path)].kind
            = "absent"

\* ---- the repair of a generated document
\* C11: clean_prepare_json_string ends either with a returned text that
\* parses as JSON and satisfies the schema, or with JsonPreparationError;
\* no other exception leaves it and nothing unvalidated is returned
C11_ValidatedOrClassified ==
  /\ json_pc # "escaped"
  /\ json_pc = "returned" =>
       /\ JsonLoads(returned).ok
       /\ SchemaValid(JsonLoads(returned).doc)
  /\ json_pc = "raised" => returned = <<>>

\* the text of a rendered document before the content value
Heads ==
  {SubSeq(Render(s, <<a>>, <<>>), 1, Len(Render(s, <<a>>, <<>>)) - 4) :
     s \in SummaryBodies, a \in ActionWords}
IsRendered(t) == \E h \in Heads : Expect(t, 1, h) /\ Len(t) >= Len(h) + 4

\* the raw text between the quotes of the content value of the input
RawContent(t) ==
  LET h == CHOOSE h \in Heads : Expect(t, 1, h)
  IN SubSeq(t, Len(h) + 1, Len(t) - 4)

\* the letters that make a JSON escape after a backslash
JsonEscapeLetters == {Q, BS, "/", "b", "f", "n", "r", "t", "u"}

\* a content value written with literal characters only: it has a quote,
\* a line feed and a backslash, each backslash stands before a character
\* that makes no JSON escape, and cleaning has nothing to remove
LiteralContent(c) ==
  /\ \E i \in 1..Len(c) : c[i] = Q
  /\ \E i \in 1..Len(c) : c[i] = LF
  /\ \E i \in 1..Len(c) : c[i] = BS
  /\ \A i \in 1..Len(c) :
       /\ c[i] \notin {NBSP, DEL, BEL}
       /\ c[i] = BS => (i < Len(c) /\ c[i + 1] \notin JsonEscapeLetters)

\* the text that was parsed is the one the two field patterns repaired
RepairedByPatterns ==
  /\ tier = 2
  /\ cleaned_str = RegexRepair(CleanJsonString(llm_json))

\* C12: a content value with literal quotes, a literal backslash before a
\* character that makes no escape, and a literal line feed is repaired to
\* a text whose content parses back to exactly that value
C12_RepairKeepsContent ==
  (/\ json_pc = "returned"
   /\ RepairedByPatterns
   /\ IsRendered(llm_json)
   /\ LiteralContent(RawContent(llm_json)))
  => JsonLoads(returned).doc.changes[1].content = RawContent(llm_json)

\* C20: the tiers run in the order direct parse, fix_and_parse_ai_json,
\* _aggressive_escape_quotes, _schema_aware_json_fix; a tier runs only
\* when the output of the tier before it did not parse, and the document
\* that is validated and returned is the parse of the output of the last
\* tier that ran
C20_TiersInOrder ==
  [][/\ tier' # tier =>
          /\ tier' = tier + 1
          /\ tier >= 1 => ~cleaned_json.ok
     /\ json_pc' = "returned" =>
          /\ cleaned_json'.ok
          /\ cleaned_json' = JsonLoads(cleaned_str')
          /\ returned' = JsonDumps(cleaned_json'.doc)]_vars

\* the direct parse failed on a literal line feed and the output of
\* fix_and_parse_ai_json was parsed, validated and returned
C20_Witness ==
  /\ json_pc = "returned"
  /\ RepairedByPatterns
  /\ ~JsonLoads(CleanJsonString(llm_json)).ok
  /\ \E i \in 1..Len(llm_json) : llm_json[i] = LF

\* ---- clean_json_string
\* the text s holds the literal text backslash-u00a0
HoldsNbspEscape(s) ==
  \E i \in 1..Len(s) : Expect(s, i, NbspEscape)

\* the line feeds, tabs and carriage returns of a text, in order
KeptControls(s) == SelectSeq(s, LAMBDA c : c \in {LF, "TAB", "CR"})

\* C21: the output of clean_json_string holds no raw non-breaking space,
\* no literal backslash-u00a0 and none of the control bytes it removes,
\* and keeps the tabs, line feeds and carriage returns of the input in
\* their order
C21_CleanOutput ==
  json_pc = "cleaned" =>
    /\ \A i \in 1..Len(cleaned_str) : cleaned_str[i] \notin {NBSP, DEL, BEL}
    /\ ~HoldsNbspEscape(cleaned_str)
    /\ KeptControls(cleaned_str) = KeptControls(llm_json)

\* C30: cleaning a cleaned text changes nothing
C30_CleanIdempotent ==
  json_pc = "cleaned" => CleanJsonString(cleaned_str) = cleaned_str

\* ---- the repair functions
\* every backslash of s from position i on starts a JSON escape sequence
RECURSIVE WellEscapedFrom(_, _)
WellEscapedFrom(s, i) ==
  IF i > Len(s) THEN TRUE
  ELSE IF s[i] # BS THEN WellEscapedFrom(s, i + 1)
  ELSE IF i + 1 > Len(s) THEN FALSE
  ELSE IF s[i + 1] \in {Q, BS, "/", "b", "f", "n", "r", "t"}
    THEN WellEscapedFrom(s, i + 2)
  ELSE IF s[i + 1] = "u"
    THEN /\ i + 5 <= Len(s)
         /\ \A k \in (i + 2)..(i + 5) : s[k] \in HexDigits
         /\ WellEscapedFrom(s, i + 6)
  ELSE FALSE

\* C24: after _fix_json_string_content every backslash of the span is
\* part of a valid JSON escape sequence: it stands before a quote, a
\* backslash, a slash, b, f, n, r or t, or before u and four hex digits
C24_EveryBackslashEscapes ==
  (fix_by = "content" /\ fix_pc = "returned")
    => WellEscapedFrom(fix_output.text, 1)

\* the quote at position pos of t is followed, after optional white
\* space, by a closing brace, or by a comma and a known field name
BeforeCloser(t, pos) ==
  \/ LET e == SkipWhitespace(t, pos + 1)
     IN e <= Len(t) /\ t[e] = "}"
  \/ /\ pos + 1 <= Len(t)
     /\ t[pos + 1] = ","
     /\ LET e == SkipWhitespace(t, pos + 2)
        IN /\ e + 2 <= Len(t)
           /\ t[e] = Q
           /\ t[e + 1] \in {"summary", "changes", "filePath", "action",
                            "content"}
           /\ t[e + 2] = Q

\* no quote of s from position i on is left without its backslash
RECURSIVE QuotesEscapedFrom(_, _)
QuotesEscapedFrom(s, i) ==
  IF i > Len(s) THEN TRUE
  ELSE IF s[i] = BS THEN QuotesEscapedFrom(s, i + 2)
  ELSE IF s[i] = Q THEN FALSE
  ELSE QuotesEscapedFrom(s, i + 1)

Quotes(s) == Len(SelectSeq(s, LAMBDA c : c = Q))

\* C22: a quote ends a content value only when a closing brace, or a
\* comma and a known field name, follows it after optional white space;
\* every quote before the end of the value is in the fixed value, with a
\* backslash before it
C22_QuoteEndsValueOnlyBeforeCloser ==
  (fix_by = "value" /\ fix_pc = "returned") =>
    /\ fix_output.ok =>
         /\ fix_input[fix_output.pos] = Q
         /\ BeforeCloser(fix_input, fix_output.pos)
    /\ QuotesEscapedFrom(fix_output.text, 1)
    /\ Quotes(fix_output.text)
         = Quotes(SubSeq(fix_input, 1, fix_output.pos - 1))

\* a value with a quote inside it was read up to its closing quote
C22_Witness ==
  /\ fix_by = "value"
  /\ fix_pc = "returned"
  /\ fix_output.ok
  /\ Quotes(fix_output.text) > 0

\* the text is a change document cut off inside its last content value
CutInsideContent(t) ==
  /\ \E k \in 1..Len(t) : Expect(t, k, <<Q, "content", Q, ":", Q>>)
  /\ ~Expect(t, Len(t) - 3, <<Q, "}", "]", "}">>)

\* C23: a document that is cut off inside its last content value is
\* repaired by _schema_aware_json_fix to a text that parses as JSON
C23_CutDocumentParses ==
  (fix_by = "schema" /\ fix_pc = "returned" /\ CutInsideContent(fix_input))
    => (fix_output.ok /\ JsonLoads(fix_output.text).ok)

\* ---- the decoder's apply functions
\* C25: a call of DecoderService._apply_changes or of decoder.apply_changes
\* leaves every file outside the output directory as it was
C25_DecoderStaysInsideOutputDir ==
  decoder_call.by # "none" =>
    \A p \in DOMAIN fs :
      ~InsideRoot(output_dir, p) => fs[p] = decoder_pre_fs[p]

\* ---- the review projection, change by change
\* the stored change c is one the projection may leave out: it has no
\* filePath, it writes the content its target already has, or it deletes
\* a file that is not there
MayBeLeftOut(c) ==
  \/ c.file_path = <<>>
  \/ /\ c.action \in {"CREATE", "REPLACE"}
     /\ NodeOf(c).kind = "text"
     /\ NodeOf(c).content = c.content
  \/ c.action = "DELETE" /\ ~Exists(NodeOf(c))

MustBeShown == SelectSeq(changes_file.changes, LAMBDA c : ~MayBeLeftOut(c))

\* C29: the review list has one item for every stored change that is not
\* a no-op write, a DELETE of a missing file or an entry without filePath,
\* PATCH changes included, in the order of the document
C29_OnlyNoOpsLeftOut ==
  Projected =>
    [i \in 1..Len(last_context.changes) |-> last_context.changes[i].filePath]
      = [i \in 1..Len(MustBeShown) |-> MustBeShown[i].file_path]

\* ---- the revert list of an apply call
Successes == SelectSeq(results, LAMBDA r : r.status = "SUCCESS")

\* C26: when an apply-mode call ends, the recorded revert list has one
\* inverse change for each change reported SUCCESS, in the same order, and
\* none for the others; revert data is saved if and only if the list is
\* not empty
C26_OneInversePerSuccess ==
  (pc \in {"returned", "raised"} /\ mode = "apply") =>
    /\ [i \in 1..Len(new_revert_changes) |-> new_revert_changes[i].file_path]
         = [i \in 1..Len(Successes) |-> Successes[i].filePath]
    /\ (new_revert_changes # <<>>)
         <=> (revert_json = RevertFile(new_revert_changes, session_id))

\* ---- a selective revert
\* the changes of the session file f for file paths that --files does
\* not name
Unselected(f) ==
  SelectSeq(reverts_dir.files[f],
            LAMBDA c : AsPosix(c.file_path) \notin {AsPosix(x) : x \in args.files})

\* C27: when a run with --files is done with a session, the inverse
\* changes of that session for the file paths that were not selected are
\* still in the session file on disk
C27_UnselectedInversesKept ==
  [][(run_pc = "applying" /\ run_pc' = "next" /\ args.files # {}) =>
       LET f == run_log[Len(run_log)].file
       IN Unselected(f) # <<>> =>
            /\ reverts_dir'.exists
            /\ f \in DOMAIN reverts_dir'.files
            /\ \A i \in 1..Len(Unselected(f)) :
                 \E j \in 1..Len(reverts_dir'.files[f]) :
                   reverts_dir'.files[f][j] = Unselected(f)[i]]_vars

\* ---- apply, then revert, of changes with distinct paths
\* the call that was undone changed text files only, with CREATE, REPLACE
\* and DELETE changes of pairwise distinct paths inside the root
DistinctTextChanges ==
  /\ \A l \in Locs : base_fs[l].kind # "binary"
  /\ \A i \in 1..Len(base_changes) :
       /\ base_changes[i].action \in {"CREATE", "REPLACE", "DELETE"}
       /\ InsideRoot(output_dir, Resolve(output_dir, base_changes[i].file_path))
  /\ \A i \in 1..Len(base_changes) : \A j \in 1..Len(base_changes) :
       base_changes[i].file_path = base_changes[j].file_path => i = j

\* C28: after an apply of such changes and a revert of what it recorded,
\* every file of the project, touched or not, exists as before the apply
\* and has the content it had
C28_DistinctRoundTripRestores ==
  (pc = "returned" /\ round_trip /\ ~io_fault /\ DistinctTextChanges)
    => \A l \in Locs : FileAt(fs, l) = FileAt(base_fs, l)

====
